---- MODULE Spec2Model ----
(***************************************************************************)
(* STIX graph assembly (src/src/stage4/04_build_stix_bundle.py) and the    *)
(* author enrichment pass (src/src/stage4/05_enrich_authors.py).           *)
(*                                                                         *)
(* Text is a sequence of one-character strings, so that trimming, case     *)
(* folding, splitting, joining and truncation are computed character by    *)
(* character as the Python code computes them.  The alphabet is ASCII; the *)
(* only line break is "\n".                                                *)
(***************************************************************************)
EXTENDS Integers, Sequences, FiniteSets, TLC

\* ------------------------------------------------------------------------
\* Bounds of the model
\* ------------------------------------------------------------------------
\* number of items of the extraction result (04: `for it in items`)
MaxArticles == 2
\* number of consecutive runs of 05 over the bundle
MaxPasses == 2

\* ------------------------------------------------------------------------
\* Program constants
\* ------------------------------------------------------------------------
CREATOR_NAME == <<"G", "e", "o", "p", "o", "l", "i", "t", "i", "c", "a", "l", " ", "C", "o", "l", "l", "e", "c", "t", "o", "r">>
CREATOR_CLASS == <<"o", "r", "g", "a", "n", "i", "z", "a", "t", "i", "o", "n">>
ALLOWED_INDICATOR_TYPES == {<<"i", "p">>, <<"d", "o", "m", "a", "i", "n">>, <<"h", "a", "s", "h">>}
NOTE_MAX_CHARS == 20000
NAME_MAX_CHARS == 256
DESC_MAX_CHARS == 4096
CONTEXT_MAX_CHARS == 2048
DOMAIN_MAX_CHARS == 253
HEAD_MAX_CHARS == 5000
HEAD_MAX_LINES == 30
FALLBACK_MIN_CHARS == 2
FALLBACK_MAX_CHARS == 80
CONF_CREATED_BY == 60
CONF_RELATED_TO == 40
UNKNOWN_PUBLISHER == <<"U", "n", "k", "n", "o", "w", "n", " ", "P", "u", "b", "l", "i", "s", "h", "e", "r">>

\* Python's None where a text may be absent (a 1-tuple that is no text:
\* texts hold one-character strings only)
None == <<"None">>

\* ------------------------------------------------------------------------
\* Text primitives (str methods and the re patterns the code uses)
\* ------------------------------------------------------------------------
Whitespace == {" ", "\t", "\n"}
IsWs(c) == c \in Whitespace

UpperLetters == <<"A", "B", "C", "D", "E", "F", "G", "H", "I", "J", "K", "L", "M", "N", "O", "P", "Q", "R", "S", "T", "U", "V", "W", "X", "Y", "Z">>
LowerLetters == <<"a", "b", "c", "d", "e", "f", "g", "h", "i", "j", "k", "l", "m", "n", "o", "p", "q", "r", "s", "t", "u", "v", "w", "x", "y", "z">>
Digits == {"0", "1", "2", "3", "4", "5", "6", "7", "8", "9"}
HexLower == Digits \cup {"a", "b", "c", "d", "e", "f"}
IsUpper(c) == \E i \in 1..26 : UpperLetters[i] = c
IsLowerLetter(c) == \E i \in 1..26 : LowerLetters[i] = c
\* \w of re for ASCII text
IsWord(c) == IsUpper(c) \/ IsLowerLetter(c) \/ c \in Digits \/ c = "_"

SetMin(S) == CHOOSE x \in S : \A y \in S : x <= y
SetMax(S) == CHOOSE x \in S : \A y \in S : y <= x
Indices(s) == [i \in 1..Len(s) |-> i]

\* str.lower()
LowerCh(c) == IF IsUpper(c) THEN LowerLetters[CHOOSE i \in 1..26 : UpperLetters[i] = c] ELSE c
Lower(s) == [i \in 1..Len(s) |-> LowerCh(s[i])]

\* s[:n]
Take(s, n) == IF Len(s) <= n THEN s ELSE SubSeq(s, 1, n)
\* s[n:]
Drop(s, n) == IF Len(s) <= n THEN <<>> ELSE SubSeq(s, n + 1, Len(s))

\* the number of whitespace characters s starts with, and ends with
LeadingWs(s) ==
    CHOOSE k \in 0..Len(s) : (k = Len(s) \/ ~IsWs(s[k + 1])) /\ \A j \in 1..k : IsWs(s[j])
TrailingWs(s) ==
    CHOOSE k \in 0..Len(s) :
        (k = Len(s) \/ ~IsWs(s[Len(s) - k])) /\ \A j \in 1..k : IsWs(s[Len(s) - j + 1])

\* str.strip()
Strip(s) ==
    IF LeadingWs(s) = Len(s) THEN <<>>
    ELSE SubSeq(s, LeadingWs(s) + 1, Len(s) - TrailingWs(s))

\* str.startswith(p)
StartsWith(s, p) == Len(s) >= Len(p) /\ SubSeq(s, 1, Len(p)) = p

\* p occurs in s at index i
OccursAt(s, p, i) == i >= 1 /\ i + Len(p) - 1 <= Len(s) /\ SubSeq(s, i, i + Len(p) - 1) = p

\* p in s
Contains(s, p) == \E i \in 1..Len(s) : OccursAt(s, p, i)

\* str.replace(a, b) for one-character a and b
ReplaceCh(s, a, b) == [i \in 1..Len(s) |-> IF s[i] = a THEN b ELSE s[i]]

\* str.split(sep) for a one-character sep
Split(s, sep) ==
    LET seps == SelectSeq(Indices(s), LAMBDA i : s[i] = sep)
        n    == Len(seps)
    IN  [k \in 1..(n + 1) |->
            SubSeq(s, IF k = 1 THEN 1 ELSE seps[k - 1] + 1,
                      IF k = n + 1 THEN Len(s) ELSE seps[k] - 1)]

\* sep.join(parts)
RECURSIVE Join(_, _)
Join(parts, sep) ==
    IF parts = <<>> THEN <<>>
    ELSE IF Len(parts) = 1 THEN parts[1]
    ELSE parts[1] \o sep \o Join(Tail(parts), sep)

\* str.splitlines(): no empty last line after a final line break
splitlines(s) ==
    LET parts == Split(s, "\n")
    IN  IF parts[Len(parts)] = <<>> THEN SubSeq(parts, 1, Len(parts) - 1) ELSE parts

\* the order-preserving "seen" loops of parse_authors and
\* split_authors_from_byline: the first occurrence of each element
FirstOccurrences(q) ==
    LET keep == SelectSeq(Indices(q), LAMBDA i : \A j \in 1..(i - 1) : q[j] # q[i])
    IN  [k \in 1..Len(keep) |-> q[keep[k]]]

\* re.sub(r"\s+", " ", s)
CollapseWs(s) ==
    LET keep == SelectSeq(Indices(s), LAMBDA i : ~IsWs(s[i]) \/ i = 1 \/ ~IsWs(s[i - 1]))
    IN  [k \in 1..Len(keep) |-> IF IsWs(s[keep[k]]) THEN " " ELSE s[keep[k]]]

\* the character class of normalize_author_key (its ASCII members but the backquote)
AuthorPunct == {".", ",", ";", ":", "(", ")", "\"", "'", "-", "_", "/", "\\"}

\* end of the run of whitespace that starts at i (i - 1 when s[i] is none)
WsRunEnd(s, i) ==
    CHOOSE j \in (i - 1)..Len(s) :
        (j = Len(s) \/ ~IsWs(s[j + 1])) /\ \A k \in i..j : IsWs(s[k])

\* a match of \s+and\s+ (re.IGNORECASE) starts at i: the index after the match, else 0
AndMatchEnd(s, i) ==
    IF i > Len(s) \/ ~IsWs(s[i]) THEN 0
    ELSE LET j == WsRunEnd(s, i)
         IN  IF j + 4 <= Len(s) /\ Lower(SubSeq(s, j + 1, j + 3)) = <<"a", "n", "d">> /\ IsWs(s[j + 4])
             THEN WsRunEnd(s, j + 4) + 1
             ELSE 0

\* re.sub(r"\s+and\s+", ",", s, flags=re.IGNORECASE): leftmost matches, not overlapping
RECURSIVE SubAndFrom(_, _)
SubAndFrom(s, from) ==
    LET starts == {i \in from..Len(s) : AndMatchEnd(s, i) # 0}
    IN  IF starts = {} THEN Drop(s, from - 1)
        ELSE LET i == SetMin(starts)
             IN  SubSeq(s, from, i - 1) \o <<",">> \o SubAndFrom(s, AndMatchEnd(s, i))
SubAnd(s) == SubAndFrom(s, 1)

\* str(n) for a natural number
RECURSIVE IntToText(_)
IntToText(n) ==
    LET d == <<<<"0", "1", "2", "3", "4", "5", "6", "7", "8", "9">>[(n % 10) + 1]>>
    IN  IF n < 10 THEN d ELSE IntToText(n \div 10) \o d

\* str(b) for a bool
BoolToText(b) == IF b THEN <<"T", "r", "u", "e">> ELSE <<"F", "a", "l", "s", "e">>

\* ------------------------------------------------------------------------
\* 04_build_stix_bundle.py: helpers
\* ------------------------------------------------------------------------
\* f"{stix_type}--{uuid.uuid4()}": the uuid is the number of ids drawn before
new_stix_id(stix_type, n) == [type |-> stix_type, uuid |-> n]

safe_str(v) == IF v = None THEN <<>> ELSE Strip(v)

DigitVal(c) == CHOOSE d \in 0..9 : <<"0", "1", "2", "3", "4", "5", "6", "7", "8", "9">>[d + 1] = c

\* one octet of ipaddress.IPv4Address: 1 to 3 ASCII digits, no leading zero, at most 255
IsOctet(p) ==
    /\ Len(p) \in 1..3
    /\ \A i \in 1..Len(p) : p[i] \in Digits
    /\ (Len(p) > 1 => p[1] # "0")
    /\ LET v == IF Len(p) = 1 THEN DigitVal(p[1])
                ELSE IF Len(p) = 2 THEN 10 * DigitVal(p[1]) + DigitVal(p[2])
                ELSE 100 * DigitVal(p[1]) + 10 * DigitVal(p[2]) + DigitVal(p[3])
       IN  v <= 255

IsIPv4(v) ==
    LET parts == Split(v, ".")
    IN  Len(parts) = 4 /\ \A k \in 1..4 : IsOctet(parts[k])

\* one group of ipaddress.IPv6Address: 1 to 4 hex digits
IsHextet(p) == Len(p) \in 1..4 /\ \A i \in 1..Len(p) : LowerCh(p[i]) \in HexLower

\* ipaddress.IPv6Address without an embedded IPv4 tail and without a scope id
\* the groups around the "::" at parts[k]: hi groups before it, lo after it
IsIPv6Short(parts, n, k, hi, lo) ==
    /\ (parts[1] = <<>> => hi = 0)
    /\ (parts[n] = <<>> => lo = 0)
    /\ 8 - (hi + lo) >= 1
    /\ \A i \in 1..n : parts[i] # <<>> => IsHextet(parts[i])

IsIPv6Parts(parts, n, skips) ==
    /\ n >= 3
    /\ n <= 9
    /\ Cardinality(skips) <= 1
    /\ IF skips # {}
       THEN \E k \in skips :
                IsIPv6Short(parts, n, k,
                            IF parts[1] = <<>> THEN k - 2 ELSE k - 1,
                            IF parts[n] = <<>> THEN n - k - 1 ELSE n - k)
       ELSE n = 8 /\ \A i \in 1..n : IsHextet(parts[i])

IsIPv6Groups(parts) ==
    IsIPv6Parts(parts, Len(parts), {i \in 2..(Len(parts) - 1) : parts[i] = <<>>})

IsIPv6(v) == IsIPv6Groups(Split(v, ":"))

is_ip(value) == IsIPv4(value) \/ IsIPv6(value)

IsDomainText(v) ==
        /\ v # <<>>
        /\ Len(v) <= DOMAIN_MAX_CHARS
        /\ \E i \in 1..Len(v) : v[i] = "."
        /\ v[1] \notin {".", "-"}
        /\ v[Len(v)] \notin {".", "-"}
        /\ ~Contains(v, <<".", ".">>)
        /\ \A i \in 1..Len(v) : IsLowerLetter(v[i]) \/ v[i] \in Digits \/ v[i] \in {".", "-"}

is_domain(value) == IsDomainText(Lower(Strip(value)))

IsHexOfLen(v, n) == Len(v) = n /\ \A i \in 1..Len(v) : v[i] \in HexLower

\* the pattern of a hash value v in lower case, None for no MD5, SHA-1 or SHA-256
HashPattern(v) ==
    IF IsHexOfLen(v, 32) THEN <<"[", "f", "i", "l", "e", ":", "h", "a", "s", "h", "e", "s", ".", "M", "D", "5", " ", "=", " ", "'">> \o v \o <<"'", "]">>
    ELSE IF IsHexOfLen(v, 40) THEN <<"[", "f", "i", "l", "e", ":", "h", "a", "s", "h", "e", "s", ".", "S", "H", "A", "1", " ", "=", " ", "'">> \o v \o <<"'", "]">>
    ELSE IF IsHexOfLen(v, 64) THEN <<"[", "f", "i", "l", "e", ":", "h", "a", "s", "h", "e", "s", ".", "S", "H", "A", "2", "5", "6", " ", "=", " ", "'">> \o v \o <<"'", "]">>
    ELSE None

\* variant: the pattern is written without the check of the type and the value
UncheckedPattern(itype, value) ==
    IF itype = <<>> \/ value = <<>> THEN None
    ELSE IF itype = <<"i", "p">> THEN <<"[", "i", "p", "v", "4", "-", "a", "d", "d", "r", ":", "v", "a", "l", "u", "e", " ", "=", " ", "'">> \o value \o <<"'", "]">>
    ELSE IF itype = <<"d", "o", "m", "a", "i", "n">> THEN <<"[", "d", "o", "m", "a", "i", "n", "-", "n", "a", "m", "e", ":", "v", "a", "l", "u", "e", " ", "=", " ", "'">> \o value \o <<"'", "]">>
    ELSE <<"[", "f", "i", "l", "e", ":", "h", "a", "s", "h", "e", "s", ".", "M", "D", "5", " ", "=", " ", "'">> \o Lower(value) \o <<"'", "]">>

\* the pattern build_indicator computes, None where it returns None
IndicatorPattern(itype, value) ==
    IF itype = <<>> \/ value = <<>> THEN None
    ELSE IF itype \notin ALLOWED_INDICATOR_TYPES THEN None
    ELSE IF itype = <<"i", "p">>
         THEN IF ~is_ip(value) THEN None
              ELSE IF IsIPv4(value) THEN <<"[", "i", "p", "v", "4", "-", "a", "d", "d", "r", ":", "v", "a", "l", "u", "e", " ", "=", " ", "'">> \o value \o <<"'", "]">>
              ELSE <<"[", "i", "p", "v", "6", "-", "a", "d", "d", "r", ":", "v", "a", "l", "u", "e", " ", "=", " ", "'">> \o value \o <<"'", "]">>
    ELSE IF itype = <<"d", "o", "m", "a", "i", "n">>
         THEN IF ~is_domain(value) THEN None
              ELSE <<"[", "d", "o", "m", "a", "i", "n", "-", "n", "a", "m", "e", ":", "v", "a", "l", "u", "e", " ", "=", " ", "'">> \o value \o <<"'", "]">>
    ELSE HashPattern(Lower(value))

\* what a builder returns in place of an object
NoObject == [type |-> None]

\* an absent "confidence" or "description" key is the value 0 or "" (the code
\* stores the key only for a non-zero, non-empty value)
IndicatorObject(ind, itype, value, pattern, created, modified, created_by_ref, n) ==
    IF pattern = None THEN NoObject
    ELSE [type           |-> <<"i", "n", "d", "i", "c", "a", "t", "o", "r">>,
          id             |-> new_stix_id(<<"i", "n", "d", "i", "c", "a", "t", "o", "r">>, n),
          created        |-> created,
          modified       |-> modified,
          created_by_ref |-> created_by_ref,
          name           |-> Take(itype \o <<":">> \o value, NAME_MAX_CHARS),
          valid_from     |-> created,
          pattern        |-> pattern,
          confidence     |-> ind.confidence,
          description    |-> Take(safe_str(ind.context), CONTEXT_MAX_CHARS)]

build_indicator(ind, created, modified, created_by_ref, n) ==
    IndicatorObject(ind, Lower(safe_str(ind.indicator_type)), safe_str(ind.value),
                    IndicatorPattern(Lower(safe_str(ind.indicator_type)), safe_str(ind.value)),
                    created, modified, created_by_ref, n)

stix_object_from_extracted(obj, created, modified, created_by_ref, n) ==
    LET stix_type == safe_str(obj.stix_type)
        base == [type           |-> stix_type,
                 id             |-> new_stix_id(stix_type, n),
                 created        |-> created,
                 modified       |-> modified,
                 created_by_ref |-> created_by_ref,
                 name           |-> Take(safe_str(obj.name), NAME_MAX_CHARS),
                 description    |-> Take(safe_str(obj.description), DESC_MAX_CHARS),
                 confidence     |-> obj.confidence]
    IN  IF stix_type = <<"i", "d", "e", "n", "t", "i", "t", "y">>
        THEN base @@ [identity_class |-> <<"o", "r", "g", "a", "n", "i", "z", "a", "t", "i", "o", "n">>]
        ELSE base

build_relationship(relationship_type, source_ref, target_ref, created, modified, created_by_ref, confidence, n) ==
    [type              |-> <<"r", "e", "l", "a", "t", "i", "o", "n", "s", "h", "i", "p">>,
     id                |-> new_stix_id(<<"r", "e", "l", "a", "t", "i", "o", "n", "s", "h", "i", "p">>, n),
     created           |-> created,
     modified          |-> modified,
     created_by_ref    |-> created_by_ref,
     relationship_type |-> relationship_type,
     source_ref        |-> source_ref,
     target_ref        |-> target_ref,
     confidence        |-> confidence]

sha256_like(s) == Len(s) = 64 /\ \A i \in 1..Len(s) : LowerCh(s[i]) \in HexLower

\* "author: " + ("; ".join(authors) if authors else "Unknown")
AuthorLine(authors) ==
    <<"a", "u", "t", "h", "o", "r", ":", " ">> \o (IF authors # <<>> THEN Join(authors, <<";", " ">>) ELSE <<"U", "n", "k", "n", "o", "w", "n">>)

\* variant: the Note names no Report in its object_refs
NoteWithoutReportRef(created, modified, created_by_ref, report_id, article_url, publisher_name, authors, raw_saved_path, raw_sha256, raw_char_len, raw_truncated, n) ==
    [type           |-> <<"n", "o", "t", "e">>,
     id             |-> new_stix_id(<<"n", "o", "t", "e">>, n),
     created        |-> created,
     modified       |-> modified,
     created_by_ref |-> created_by_ref,
     content        |-> AuthorLine(authors),
     object_refs    |-> <<>>]

build_note_for_author_and_raw(created, modified, created_by_ref, report_id, article_url, publisher_name, authors, raw_saved_path, raw_sha256, raw_char_len, raw_truncated, n) ==
    LET publisher_line ==
            <<"p", "u", "b", "l", "i", "s", "h", "e", "r", ":", " ">> \o (IF publisher_name # <<>> THEN publisher_name ELSE UNKNOWN_PUBLISHER)
        lines ==
            IF raw_saved_path # <<>> \/ (raw_sha256 # <<>> /\ sha256_like(raw_sha256))
            THEN << AuthorLine(authors), publisher_line,
                    <<"r", "a", "w", "_", "t", "e", "x", "t", "_", "r", "e", "f", ":">>,
                    <<"-", " ", "a", "r", "t", "i", "c", "l", "e", "_", "u", "r", "l", ":", " ">> \o article_url,
                    <<"-", " ", "r", "a", "w", "_", "s", "a", "v", "e", "d", "_", "p", "a", "t", "h", ":", " ">> \o raw_saved_path,
                    <<"-", " ", "r", "a", "w", "_", "s", "h", "a", "2", "5", "6", ":", " ">> \o raw_sha256,
                    <<"-", " ", "r", "a", "w", "_", "c", "h", "a", "r", "_", "l", "e", "n", ":", " ">> \o IntToText(raw_char_len),
                    <<"-", " ", "r", "a", "w", "_", "t", "r", "u", "n", "c", "a", "t", "e", "d", ":", " ">> \o BoolToText(raw_truncated) >>
            ELSE << AuthorLine(authors), publisher_line, <<"r", "a", "w", "_", "t", "e", "x", "t", "_", "r", "e", "f", ":", " ", "(", "n", "o", "t", " ", "a", "v", "a", "i", "l", "a", "b", "l", "e", ")">> >>
        content == Strip(Join(lines, <<"\n">>))
    IN  [type           |-> <<"n", "o", "t", "e">>,
         id             |-> new_stix_id(<<"n", "o", "t", "e">>, n),
         created        |-> created,
         modified       |-> modified,
         created_by_ref |-> created_by_ref,
         content        |-> Take(content, NOTE_MAX_CHARS),
         object_refs    |-> <<report_id>>]

normalize_author_key(name) ==
    LET s1 == Strip(CollapseWs(Lower(safe_str(name))))
        s2 == SelectSeq(s1, LAMBDA c : c \notin AuthorPunct)
    IN  Strip(CollapseWs(s2))

\* an author value of the input: absent, a text, or a list of texts
NoAuthor == [kind |-> "none", v |-> <<>>]
AuthorText(t) == [kind |-> "str", v |-> t]
AuthorList(l) == [kind |-> "list", v |-> l]
\* Python truth of an author value (None, "" and [] are false)
Truthy(av) == av.kind # "none" /\ av.v # <<>>

\* [safe_str(x) for x in xs], [x.strip() for x in xs], [x for x in xs if x]
SafeStrAll(xs) == [i \in 1..Len(xs) |-> safe_str(xs[i])]
StripAll(xs) == [i \in 1..Len(xs) |-> Strip(xs[i])]
NonEmpty(xs) == SelectSeq(xs, LAMBDA x : x # <<>>)

parse_authors(author_value) ==
    IF author_value.kind = "none" THEN <<>>
    ELSE IF author_value.kind = "list"
    THEN FirstOccurrences(NonEmpty(SafeStrAll(author_value.v)))
    ELSE IF safe_str(author_value.v) = <<>> THEN <<>>
    ELSE FirstOccurrences(NonEmpty(StripAll(Split(
             SubAnd(ReplaceCh(ReplaceCh(safe_str(author_value.v), "|", ","), ";", ",")),
             ","))))

make_publisher_identity(name, created, modified, n) ==
    [type           |-> <<"i", "d", "e", "n", "t", "i", "t", "y">>,
     id             |-> new_stix_id(<<"i", "d", "e", "n", "t", "i", "t", "y">>, n),
     created        |-> created,
     modified       |-> modified,
     name           |-> Take(name, NAME_MAX_CHARS),
     identity_class |-> <<"o", "r", "g", "a", "n", "i", "z", "a", "t", "i", "o", "n">>]

\* the fixed description of an author identity, abbreviated
AUTHOR_DESC == <<"A", "u", "t", "h", "o", "r", " ", "n", "a", "m", "e", " ", "a", "s", " ", "l", "i", "s", "t", "e", "d", " ", "i", "n", " ", "t", "h", "e", " ", "s", "o", "u", "r", "c", "e", " ", "a", "r", "t", "i", "c", "l", "e", ".">>

make_author_identity(name, created, modified, created_by_ref, n) ==
    [type           |-> <<"i", "d", "e", "n", "t", "i", "t", "y">>,
     id             |-> new_stix_id(<<"i", "d", "e", "n", "t", "i", "t", "y">>, n),
     created        |-> created,
     modified       |-> modified,
     created_by_ref |-> created_by_ref,
     name           |-> Take(name, NAME_MAX_CHARS),
     identity_class |-> <<"i", "n", "d", "i", "v", "i", "d", "u", "a", "l">>,
     description    |-> AUTHOR_DESC]

\* ------------------------------------------------------------------------
\* 05_enrich_authors.py: helpers
\* ------------------------------------------------------------------------
\* re.sub(r"\s+\|\s+.*$", "", s): the cut starts at the first whitespace run
\* that is followed by "|" and whitespace; "." stops at a line break
CutAfterBar(s) ==
    LET starts == {i \in 1..Len(s) :
                      /\ IsWs(s[i])
                      /\ LET j == WsRunEnd(s, i)
                         IN  /\ j + 2 <= Len(s)
                             /\ s[j + 1] = "|"
                             /\ IsWs(s[j + 2])
                             /\ LET e == WsRunEnd(s, j + 2)
                                IN  \A k \in (e + 1)..Len(s) : s[k] = "\n" => k = Len(s)}
    IN  IF starts = {} THEN s ELSE SubSeq(s, 1, SetMin(starts) - 1)

\* lines 69-70: a part that starts with "by " loses it
UnBy(p) == IF StartsWith(Lower(p), <<"b", "y", " ">>) THEN Strip(Drop(p, 3)) ELSE p
UnByAll(parts) == [i \in 1..Len(parts) |-> UnBy(parts[i])]

split_authors_from_byline(byline) ==
    IF safe_str(byline) = <<>> THEN <<>>
    ELSE FirstOccurrences(NonEmpty(UnByAll(NonEmpty(StripAll(Split(
             ReplaceCh(ReplaceCh(ReplaceCh(SubAnd(Strip(CutAfterBar(safe_str(byline)))),
                                           "&", ","), ";", ","), "|", ","),
             ","))))))

\* re.match(r"^\s*By\s+(.+?)\s*$", line, re.IGNORECASE) then group(1).strip():
\* the text after "By" and its whitespace, None without a match.  A line of
\* "By" and whitespace only matches with a blank group; its authors are empty
\* like those of a line that does not match.
BylineOfLine(line) ==
    LET t == Drop(line, WsRunEnd(line, 1))
    IN  IF Len(t) >= 3 /\ Lower(SubSeq(t, 1, 2)) = <<"b", "y">> /\ IsWs(t[3])
        THEN Strip(Drop(t, 2))
        ELSE None

\* re.search(r"\bBy\s+([A-Z][^\n\r<]{2,80})", head): group(1) at index i, None without
FallbackAt(head, i) ==
    IF /\ OccursAt(head, <<"B", "y">>, i)
       /\ (i = 1 \/ ~IsWord(head[i - 1]))
       /\ i + 2 <= Len(head)
       /\ IsWs(head[i + 2])
    THEN LET j == WsRunEnd(head, i + 2) + 1
             stops == {k \in (j + 1)..Len(head) : head[k] \in {"\n", "\r", "<"}}
             last == IF stops = {} THEN Len(head) ELSE SetMin(stops) - 1
             e == IF last - j > FALLBACK_MAX_CHARS THEN j + FALLBACK_MAX_CHARS ELSE last
         IN  IF j <= Len(head) /\ IsUpper(head[j]) /\ e - j >= FALLBACK_MIN_CHARS
             THEN SubSeq(head, j, e)
             ELSE None
    ELSE None

\* lines 91-99: the authors of a line, empty unless the line is a byline
ByAuthors(byline) == IF byline = None THEN <<>> ELSE split_authors_from_byline(byline)
LineAuthors(line) == ByAuthors(BylineOfLine(line))

\* lines 91-99: the authors of the first line that has any
FirstLineAuthors(lines) ==
    IF \E i \in 1..Len(lines) : LineAuthors(lines[i]) # <<>>
    THEN LineAuthors(lines[CHOOSE i \in 1..Len(lines) :
                              /\ LineAuthors(lines[i]) # <<>>
                              /\ \A j \in 1..(i - 1) : LineAuthors(lines[j]) = <<>>])
    ELSE <<>>

\* lines 101-104: the authors of the first match of the fallback pattern
FallbackAuthors(head) ==
    IF \E i \in 1..Len(head) : FallbackAt(head, i) # None
    THEN split_authors_from_byline(
             FallbackAt(head, CHOOSE i \in 1..Len(head) :
                                  /\ FallbackAt(head, i) # None
                                  /\ \A j \in 1..(i - 1) : FallbackAt(head, j) = None))
    ELSE <<>>

\* the authors of the byline lines, else those of the fallback
HeadAuthors(line_authors, head) ==
    IF line_authors # <<>> THEN line_authors ELSE FallbackAuthors(head)

ExtractFromHead(head) ==
    HeadAuthors(FirstLineAuthors(Take(splitlines(head), HEAD_MAX_LINES)), head)

extract_author_from_raw_text(raw_text) ==
    IF raw_text = <<>> THEN <<>> ELSE ExtractFromHead(Take(raw_text, HEAD_MAX_CHARS))

\* re.search(r"^- raw_saved_path:\s*(.+?)\s*$", note_content, re.MULTILINE):
\* the first text after the label, up to the end of its line, stripped
parse_raw_saved_path_from_note(note_content) ==
    LET label  == <<"-", " ", "r", "a", "w", "_", "s", "a", "v", "e", "d", "_", "p", "a", "t", "h", ":">>
        starts == {i \in 1..Len(note_content) :
                      /\ (i = 1 \/ note_content[i - 1] = "\n")
                      /\ OccursAt(note_content, label, i)}
    IN  IF starts = {} THEN <<>>
        ELSE LET p    == SetMin(starts) + Len(label)
                 rest == Drop(note_content, p - 1)
                 body == Drop(rest, WsRunEnd(rest, 1))
             IN  IF body = <<>> THEN <<>>
                 ELSE Strip(splitlines(body)[1])

update_note_author_line(note_content, authors) ==
    LET author_line == AuthorLine(authors)
        lines == splitlines(note_content)
        updated ==
            IF lines # <<>> /\ StartsWith(Lower(lines[1]), <<"a", "u", "t", "h", "o", "r", ":">>)
            THEN Join(<<author_line>> \o Tail(lines), <<"\n">>)
            ELSE author_line \o <<"\n">> \o note_content
    IN  IF note_content = <<>> THEN author_line
        ELSE Take(updated, NOTE_MAX_CHARS)

\* ------------------------------------------------------------------------
\* Inputs: the items of the extraction result, each with the record of the
\* cleaned-text table and of the included-rows table that its url selects
\* ------------------------------------------------------------------------
T_ok == <<"o", "k">>
T_malware == <<"m", "a", "l", "w", "a", "r", "e">>
T_identity == <<"i", "d", "e", "n", "t", "i", "t", "y">>
T_Lockbit == <<"L", "o", "c", "k", "b", "i", "t">>
T_YCorp == <<"Y", " ", "C", "o", "r", "p">>
T_BC == <<"B", "l", "e", "e", "p", "i", "n", "g", "C", "o", "m", "p", "u", "t", "e", "r">>
T_HN == <<"H", "a", "c", "k", "e", "r", "N", "e", "w", "s">>
T_Bill == <<"B", "i", "l", "l", " ", "T", "o", "u", "l", "a", "s">>
T_RawPath == <<"/", "r", "a", "w", "/", "a", ".", "t", "x", "t">>
IpValue == <<"2", "0", "3", ".", "0", ".", "1", "1", "3", ".", "5">>
\* an author name one character longer than an identity name can hold
LongName == [i \in 1..(NAME_MAX_CHARS + 1) |-> "a"]
Md5Lower == [i \in 1..32 |-> "a"]
Md5Upper == [i \in 1..32 |-> "A"]
Sha256Text == [i \in 1..64 |-> "c"]

Sdo(stix_type, name, description, confidence) ==
    [stix_type |-> stix_type, name |-> name, description |-> description, confidence |-> confidence]
Ind(indicator_type, value, context, confidence) ==
    [indicator_type |-> indicator_type, value |-> value, context |-> context, confidence |-> confidence]
Rel(source_stix_type, source_name, relationship_type, target_stix_type, target_name) ==
    [source_name |-> source_name, source_stix_type |-> source_stix_type,
     target_name |-> target_name, target_stix_type |-> target_stix_type,
     relationship_type |-> relationship_type]

\* a record of a list that is a JSON string where an object is expected
JsonString(s) == [json_string |-> s]
IsObject(v) == "json_string" \notin DOMAIN v

SdoLockbit == Sdo(T_malware, T_Lockbit, <<"r", "a", "n", "s", "o", "m", "w", "a", "r", "e">>, 80)
SdoLockbitAgain == Sdo(<<" ", "m", "a", "l", "w", "a", "r", "e">>, <<"L", "o", "c", "k", "b", "i", "t", " ">>, <<"a", "n", "o", "t", "h", "e", "r", " ", "t", "e", "x", "t">>, 0)
SdoYCorp == Sdo(T_identity, T_YCorp, None, 0)
SdoNameless == Sdo(T_malware, <<" ", " ">>, <<"n", "o", " ", "n", "a", "m", "e">>, 50)
RelTargets == Rel(T_malware, T_Lockbit, <<"t", "a", "r", "g", "e", "t", "s">>, T_identity, T_YCorp)
RelDefaultType == Rel(T_identity, <<" ", "Y", " ", "C", "o", "r", "p">>, None, T_malware, T_Lockbit)
RelNoSource == Rel(T_malware, None, <<"u", "s", "e", "s">>, T_identity, T_YCorp)

\* cleaned_by_url.get(url, {}) and the included row when the url selects none
NoCleaned ==
    [source |-> None, author |-> NoAuthor, raw_saved_path |-> None, raw_sha256 |-> None,
     raw_char_len |-> 0, raw_truncated |-> FALSE,
     focus_summary |-> None, clean_text |-> None, clean_sha256 |-> None]
NoIncluded == [source |-> None, author |-> NoAuthor]
BaseIt ==
    [title |-> <<"X", " ", "R", "a", "n", "s", "o", "m", "w", "a", "r", "e", " ", "H", "i", "t", "s", " ", "Y", " ", "C", "o", "r", "p">>, source |-> None, author |-> NoAuthor,
     retrieval_status |-> T_ok, extraction_status |-> T_ok,
     objects |-> <<>>, indicators |-> <<>>, relationships |-> <<>>]
Item(it, cleaned, inc) == [it |-> it, cleaned |-> cleaned, inc |-> inc]

ItemNotRetrieved == Item([BaseIt EXCEPT !.retrieval_status = <<"e", "r", "r", "o", "r">>, !.objects = <<SdoLockbit>>],
                         NoCleaned, NoIncluded)

\* an item whose second record of "objects" is no object
ItemBadRecord == Item([BaseIt EXCEPT !.source = T_BC,
                                     !.objects = <<SdoLockbit, JsonString(T_Lockbit)>>],
                      NoCleaned, NoIncluded)

\* items about SDOs and extracted relationships
ExtractObjectLists ==
    { <<SdoLockbit>>,
      <<SdoLockbitAgain, SdoYCorp>>,
      <<SdoYCorp, SdoLockbit, SdoLockbitAgain>>,
      <<SdoNameless>> }
ExtractRelationshipLists ==
    { <<>>,
      <<RelTargets>>,
      <<RelTargets, RelNoSource, RelTargets, RelDefaultType>> }
ExtractItems ==
    { Item([BaseIt EXCEPT !.source = T_BC, !.objects = os, !.relationships = rs],
           NoCleaned, NoIncluded) :
        os \in ExtractObjectLists, rs \in ExtractRelationshipLists }
    \cup {ItemNotRetrieved, ItemBadRecord}

\* the example scenario of the build: a malware SDO, an ip and a bogus indicator,
\* and a relationship whose target has no SDO record
WorkedExample ==
    Item([BaseIt EXCEPT !.objects = <<Sdo(T_malware, T_Lockbit, None, 0)>>,
                        !.indicators = <<Ind(<<"i", "p">>, IpValue, None, 0),
                                         Ind(<<"o", "t", "h", "e", "r">>, <<"b", "o", "g", "u", "s">>, None, 0)>>,
                        !.relationships = <<RelTargets>>],
         NoCleaned, NoIncluded)

\* items about indicators
IndicatorLists ==
    { <<>>,
      <<Ind(<<"i", "p">>, IpValue, None, 0), Ind(<<"o", "t", "h", "e", "r">>, <<"b", "o", "g", "u", "s">>, None, 0)>>,
      <<Ind(<<"I", "P">>, <<" ", "2", "0", "3", ".", "0", ".", "1", "1", "3", ".", "5", " ">>, <<"s", "e", "e", "n", " ", "i", "n", " ", "l", "o", "g", "s">>, 70), Ind(<<"i", "p">>, IpValue, None, 0)>>,
      <<Ind(<<"d", "o", "m", "a", "i", "n">>, <<"E", "v", "i", "l", ".", "E", "x", "a", "m", "p", "l", "e", ".", "c", "o", "m">>, None, 0), Ind(<<"d", "o", "m", "a", "i", "n">>, <<"e", "v", "i", "l", "_", "e", "x", "a", "m", "p", "l", "e">>, None, 0),
        Ind(<<"i", "p">>, <<"2", "0", "3", ".", "0", ".", "1", "1", "3", ".", "2", "5", "6">>, None, 0)>>,
      <<Ind(<<"h", "a", "s", "h">>, Md5Lower, None, 0), Ind(<<"h", "a", "s", "h">>, Md5Upper, None, 0),
        Ind(<<"h", "a", "s", "h">>, <<"a", "b", "c", "1", "2", "3">>, None, 0)>>,
      <<Ind(<<"i", "p">>, <<"2", "0", "0", "1", ":", "d", "b", "8", ":", ":", "1">>, None, 0), Ind(None, <<"x">>, None, 0)>>,
      <<Ind(<<"u", "r", "l">>, <<"h", "t", "t", "p", ":", "/", "/", "x">>, None, 0)>> }
IndicatorItems ==
    { Item([BaseIt EXCEPT !.source = <<" ", "B", "l", "e", "e", "p", "i", "n", "g", "C", "o", "m", "p", "u", "t", "e", "r", " ">>, !.objects = os, !.indicators = is],
           [NoCleaned EXCEPT !.focus_summary = <<"s", "u", "m", "m", "a", "r", "y">>, !.clean_text = <<"c", "l", "e", "a", "n", " ", "t", "e", "x", "t">>],
           NoIncluded) :
        os \in {<<>>, <<SdoLockbit>>}, is \in IndicatorLists }
    \cup {WorkedExample}

\* items about publishers, authors and raw text
AuthorItems ==
    { Item([BaseIt EXCEPT !.objects = <<SdoLockbit>>, !.source = T_HN,
                          !.indicators = <<Ind(<<"i", "p">>, IpValue, None, 0)>>],
           [NoCleaned EXCEPT !.source = T_HN, !.raw_saved_path = T_RawPath,
                             !.author = AuthorText(<<"B", "i", "l", "l", " ", "T", "o", "u", "l", "a", "s", " ", "a", "n", "d", " ", "b", "i", "l", "l", " ", " ", "t", "o", "u", "l", "a", "s", ".">>)],
           [NoIncluded EXCEPT !.source = T_BC]),
      Item([BaseIt EXCEPT !.objects = <<SdoLockbit>>],
           [NoCleaned EXCEPT !.source = T_HN, !.raw_saved_path = T_RawPath,
                             !.raw_sha256 = Sha256Text, !.raw_char_len = 1234],
           [NoIncluded EXCEPT !.source = <<" ">>]),
      Item([BaseIt EXCEPT !.objects = <<SdoLockbit>>, !.source = T_BC,
                          !.author = AuthorList(<<LongName, <<" ">>, LongName>>)],
           [NoCleaned EXCEPT !.raw_sha256 = Sha256Text, !.raw_truncated = TRUE],
           NoIncluded),
      Item([BaseIt EXCEPT !.objects = <<SdoYCorp>>, !.title = None],
           [NoCleaned EXCEPT !.raw_saved_path = T_RawPath, !.author = AuthorText(T_Bill)],
           [NoIncluded EXCEPT !.author = AuthorText(<<>>)]),
      Item([BaseIt EXCEPT !.source = T_BC, !.author = AuthorText(T_Bill)], NoCleaned, NoIncluded),
      Item([BaseIt EXCEPT !.objects = <<SdoLockbit>>, !.source = T_BC], NoCleaned, NoIncluded),
      Item([BaseIt EXCEPT !.objects = <<SdoLockbit>>, !.source = <<"b", "l", "e", "e", "p", "i", "n", "g", "c", "o", "m", "p", "u", "t", "e", "r">>,
                          !.author = AuthorText(<<"A", "n", "n", " ", "L", "e", "e", " ", "&", " ", "B", "i", "l", "l", " ", "T", "o", "u", "l", "a", "s", ";", " ", "A", "n", "n", " ", "L", "e", "e", "|", "X">>)],
           NoCleaned, NoIncluded),
      Item([BaseIt EXCEPT !.objects = <<SdoLockbit>>, !.source = CREATOR_NAME],
           [NoCleaned EXCEPT !.raw_saved_path = T_RawPath], NoIncluded),
      ItemNotRetrieved }

\* a run takes all its items from one of these sets
InputPools == {ExtractItems, IndicatorItems, AuthorItems}

\* a path that exists and cannot be read as a file, such as a directory
IsADirectory == <<"IsADirectory">>

\* what may lie at T_RawPath: nothing (None), a directory, or a raw text file
RawTexts ==
    { None, IsADirectory,
      <<"X", " ", "R", "a", "n", "s", "o", "m", "w", "a", "r", "e", " ", "H", "i", "t", "s", " ", "Y", " ", "C", "o", "r", "p", "\n", "B", "y", " ", "B", "i", "l", "l", " ", "T", "o", "u", "l", "a", "s", "\n", "L", "o", "c", "k", "b", "i", "t", " ", "h", "i", "t", " ", "Y", " ", "C", "o", "r", "p", ".">>,
      <<"T", "i", "t", "l", "e", "\n", " ", " ", "b", "y", " ", " ", "A", "n", "n", " ", "L", "e", "e", " ", "&", " ", "b", "i", "l", "l", " ", "t", "o", "u", "l", "a", "s", " ", "|", " ", "S", "e", "c", "u", "r", "i", "t", "y", "\n", "t", "e", "x", "t">>,
      <<"T", "i", "t", "l", "e", "\n", "n", "o", " ", "b", "y", "l", "i", "n", "e", " ", "h", "e", "r", "e", "\n">>,
      <<"B", "y", " ">> \o LongName \o <<"\n", "b", "o", "d", "y">>,
      \* HEAD_MAX_LINES lines without a byline, then a byline on the next line
      <<"T", "i", "t", "l", "e", "\n">> \o [i \in 1..(2 * (HEAD_MAX_LINES - 1)) |-> IF i % 2 = 1 THEN "x" ELSE "\n"]
          \o <<"B", "y", " ", "B", "i", "l", "l", " ", "T", "o", "u", "l", "a", "s">> }

\* ------------------------------------------------------------------------
\* State
\* ------------------------------------------------------------------------
VARIABLES
    input_pool,   \* the set the run's items come from
    pc,           \* "loop", "item", "authors": inside 04's main; "built": bundle and
                  \* manifest written; "enrich": inside 05's main; "enriched": 05 ended;
                  \* "aborted": the program ended with an uncaught exception
    objects,      \* 04: the objects list
    registry,     \* 04: GlobalRegistry
    manifest,     \* 04: manifest["reports"], manifest["skipped"]
    next_uuid,    \* the number of ids drawn so far
    cur,          \* 04: the locals of the loop body for the item being processed
    n_items,      \* 04: the number of items taken from the input so far
    bundle,       \* the bundle file
    raw_files,    \* the raw text file at each path
    objs,         \* 05: the objects list in memory
    enr,          \* 05: the locals of main
    passes        \* the number of runs of 05 started

vars == <<input_pool, pc, objects, registry, manifest, next_uuid, cur, n_items,
          bundle, raw_files, objs, enr, passes>>

\* the clock both programs read once per run
now_utc_iso == passes

EmptyDict == [k \in {} |-> None]
DictPut(d, k, v) == [x \in (DOMAIN d) \cup {k} |-> IF x = k THEN v ELSE d[x]]

\* GlobalRegistry.__init__
GlobalRegistry ==
    [sdo_ids |-> EmptyDict, ind_ids |-> EmptyDict, publisher_ids |-> EmptyDict,
     author_ids |-> EmptyDict]

creator_identity ==
    [type           |-> <<"i", "d", "e", "n", "t", "i", "t", "y">>,
     id             |-> new_stix_id(<<"i", "d", "e", "n", "t", "i", "t", "y">>, 0),
     created        |-> 0,
     modified       |-> 0,
     name           |-> CREATOR_NAME,
     identity_class |-> CREATOR_CLASS]

creator_identity_id == creator_identity.id

NoCur == [row_num |-> 0]
NoBundle == [exists |-> FALSE]
NoEnr == [created |-> 0]

Init ==
    /\ input_pool \in InputPools
    /\ pc = "loop"
    /\ objects = <<creator_identity>>
    /\ registry = GlobalRegistry
    /\ manifest = [reports |-> <<>>, skipped |-> <<>>]
    /\ next_uuid = 1
    /\ cur = NoCur
    /\ n_items = 0
    /\ bundle = NoBundle
    /\ raw_files = [p \in {T_RawPath} |-> None]
    /\ objs = <<>>
    /\ enr = NoEnr
    /\ passes = 0

\* ------------------------------------------------------------------------
\* 04_build_stix_bundle.py: main
\* ------------------------------------------------------------------------
\* what the get_or_create closures read and write
Globals ==
    [objects |-> objects, registry |-> registry, next_uuid |-> next_uuid,
     created |-> now_utc_iso]

Resolved(id, g) == [id |-> id, objects |-> g.objects, registry |-> g.registry,
                    next_uuid |-> g.next_uuid]

\* variant: the id is registered but the object is not appended to the list
SdoIdWithoutAppend(g, stix_type, name, obj) ==
    LET key == <<stix_type, name>>
        o   == stix_object_from_extracted(obj, g.created, g.created, creator_identity_id, g.next_uuid)
    IN  IF key \in DOMAIN g.registry.sdo_ids
        THEN Resolved(g.registry.sdo_ids[key], g)
        ELSE [id        |-> o.id,
              objects   |-> g.objects,
              registry  |-> [g.registry EXCEPT !.sdo_ids = DictPut(@, key, o.id)],
              next_uuid |-> g.next_uuid + 1]

\* variant: the registry is not consulted, every record makes an object
SdoIdAlwaysNew(g, stix_type, name, obj) ==
    LET key == <<stix_type, name>>
        o   == stix_object_from_extracted(obj, g.created, g.created, creator_identity_id, g.next_uuid)
    IN  [id        |-> o.id,
         objects   |-> Append(g.objects, o),
         registry  |-> [g.registry EXCEPT !.sdo_ids = DictPut(@, key, o.id)],
         next_uuid |-> g.next_uuid + 1]

get_or_create_sdo_id(g, stix_type, name, obj) ==
    LET key == <<stix_type, name>>
        o   == stix_object_from_extracted(obj, g.created, g.created, creator_identity_id, g.next_uuid)
    IN  IF key \in DOMAIN g.registry.sdo_ids
        THEN Resolved(g.registry.sdo_ids[key], g)
        ELSE [id        |-> o.id,
              objects   |-> Append(g.objects, o),
              registry  |-> [g.registry EXCEPT !.sdo_ids = DictPut(@, key, o.id)],
              next_uuid |-> g.next_uuid + 1]

\* variant: the Indicator is appended and its key is not registered
IndicatorIdUnregistered(g, itype, value, candidate) ==
    [id        |-> candidate.id,
     objects   |-> Append(g.objects, candidate),
     registry  |-> g.registry,
     next_uuid |-> g.next_uuid + 1]

\* candidate was built with the id number g.next_uuid
get_or_create_indicator_id(g, itype, value, candidate) ==
    LET key == <<itype, value>>
    IN  IF key \in DOMAIN g.registry.ind_ids
        THEN [Resolved(g.registry.ind_ids[key], g) EXCEPT !.next_uuid = g.next_uuid + 1]
        ELSE [id        |-> candidate.id,
              objects   |-> Append(g.objects, candidate),
              registry  |-> [g.registry EXCEPT !.ind_ids = DictPut(@, key, candidate.id)],
              next_uuid |-> g.next_uuid + 1]

\* variant: the registry is keyed by the name in lower case
PublisherIdFolded(g, publisher_name) ==
    LET name == IF safe_str(publisher_name) # <<>> THEN safe_str(publisher_name)
                ELSE UNKNOWN_PUBLISHER
        pub  == make_publisher_identity(name, g.created, g.created, g.next_uuid)
    IN  IF Lower(name) \in DOMAIN g.registry.publisher_ids
        THEN Resolved(g.registry.publisher_ids[Lower(name)], g)
        ELSE [id        |-> pub.id,
              objects   |-> Append(g.objects, pub),
              registry  |-> [g.registry EXCEPT !.publisher_ids = DictPut(@, Lower(name), pub.id)],
              next_uuid |-> g.next_uuid + 1]

get_or_create_publisher_id(g, publisher_name) ==
    LET name == IF safe_str(publisher_name) # <<>> THEN safe_str(publisher_name)
                ELSE UNKNOWN_PUBLISHER
        pub  == make_publisher_identity(name, g.created, g.created, g.next_uuid)
    IN  IF name \in DOMAIN g.registry.publisher_ids
        THEN Resolved(g.registry.publisher_ids[name], g)
        ELSE [id        |-> pub.id,
              objects   |-> Append(g.objects, pub),
              registry  |-> [g.registry EXCEPT !.publisher_ids = DictPut(@, name, pub.id)],
              next_uuid |-> g.next_uuid + 1]

\* variant: the author name is the key as it is written
AuthorKeyRaw(publisher_name, author_name) ==
    << (IF safe_str(publisher_name) # <<>> THEN safe_str(publisher_name) ELSE UNKNOWN_PUBLISHER),
       safe_str(author_name) >>

\* the key of the author registry
AuthorKey(publisher_name, author_name) ==
    << (IF safe_str(publisher_name) # <<>> THEN safe_str(publisher_name) ELSE UNKNOWN_PUBLISHER),
       normalize_author_key(author_name) >>

\* variant: the id is registered but the identity is not appended to the list
AuthorIdWithoutAppend(g, publisher_name, author_name) ==
    LET key  == AuthorKey(publisher_name, author_name)
        auth == make_author_identity(author_name, g.created, g.created, creator_identity_id,
                                     g.next_uuid)
    IN  IF key \in DOMAIN g.registry.author_ids
        THEN Resolved(g.registry.author_ids[key], g)
        ELSE [id        |-> auth.id,
              objects   |-> g.objects,
              registry  |-> [g.registry EXCEPT !.author_ids = DictPut(@, key, auth.id)],
              next_uuid |-> g.next_uuid + 1]

get_or_create_author_id(g, publisher_name, author_name) ==
    LET key  == AuthorKey(publisher_name, author_name)
        auth == make_author_identity(author_name, g.created, g.created, creator_identity_id,
                                     g.next_uuid)
    IN  IF key \in DOMAIN g.registry.author_ids
        THEN Resolved(g.registry.author_ids[key], g)
        ELSE [id        |-> auth.id,
              objects   |-> Append(g.objects, auth),
              registry  |-> [g.registry EXCEPT !.author_ids = DictPut(@, key, auth.id)],
              next_uuid |-> g.next_uuid + 1]

\* the url of the item in row row_num (every item has a url of its own)
UrlOfRow(row_num) == <<"h", "t", "t", "p", "s", ":", "/", "/", "e", "x", ".", "c", "o", "m", "/">> \o IntToText(row_num)

\* a or b or c on texts after safe_str
FirstNonEmpty(a, b, c, d) ==
    IF a # <<>> THEN a ELSE IF b # <<>> THEN b ELSE IF c # <<>> THEN c ELSE d

\* inc_item.get("author") or cleaned_item.get("author") or it.get("author")
FirstTruthy(a, b, c) == IF Truthy(a) THEN a ELSE IF Truthy(b) THEN b ELSE c

SkippedEntry(row_num, it, reason) ==
    [row_num |-> row_num, title |-> safe_str(it.title), url |-> UrlOfRow(row_num),
     retrieval_status |-> safe_str(it.retrieval_status),
     extraction_status |-> safe_str(it.extraction_status),
     reason |-> reason]

\* variant: the gate looks at the extraction status only
StatusOkExtractionOnly(it) == safe_str(it.extraction_status) = T_ok

StatusOk(it) == safe_str(it.retrieval_status) = T_ok /\ safe_str(it.extraction_status) = T_ok

\* lines 467-485: an item whose retrieval or extraction status is not "ok"
ItemNotOk ==
    /\ pc = "loop"
    /\ n_items < MaxArticles
    /\ \E item \in input_pool :
        /\ ~StatusOk(item.it)
        /\ manifest' = [manifest EXCEPT !.skipped =
                            Append(@, SkippedEntry(n_items + 1, item.it, <<"s", "k", "i", "p", ":", " ", "n", "o", "t", " ", "o", "k">>))]
    /\ n_items' = n_items + 1
    /\ UNCHANGED <<input_pool, pc, objects, registry, next_uuid, cur, bundle, raw_files,
                   objs, enr, passes>>

\* lines 467-515: the item passes the status gate; its publisher is resolved
ItemBegin ==
    /\ pc = "loop"
    /\ n_items < MaxArticles
    /\ \E item \in input_pool :
        /\ StatusOk(item.it)
        /\ \E publisher_name \in
                   {FirstNonEmpty(safe_str(item.inc.source), safe_str(item.cleaned.source),
                                  safe_str(item.it.source), UNKNOWN_PUBLISHER)},
              authors \in
                   {parse_authors(FirstTruthy(item.inc.author, item.cleaned.author,
                                              item.it.author))} :
           \E r \in {get_or_create_publisher_id(Globals, publisher_name)} :
               /\ objects' = r.objects
               /\ registry' = r.registry
               /\ next_uuid' = r.next_uuid
               /\ cur' = [item               |-> item,
                          row_num            |-> n_items + 1,
                          title              |-> safe_str(item.it.title),
                          url                |-> UrlOfRow(n_items + 1),
                          publisher_name     |-> publisher_name,
                          publisher_id       |-> r.id,
                          authors            |-> authors,
                          id_map             |-> <<>>,
                          indicator_ids      |-> <<>>,
                          skipped_indicators |-> <<>>,
                          relationship_ids   |-> <<>>,
                          seen_rel           |-> {},
                          obj_pos            |-> 1,
                          ind_pos            |-> 1,
                          rel_pos            |-> 1,
                          author_pos         |-> 1,
                          report_idx         |-> 0]
    /\ pc' = "item"
    /\ n_items' = n_items + 1
    /\ UNCHANGED <<input_pool, manifest, bundle, raw_files, objs, enr, passes>>

\* id_map: a dict in insertion order, as a sequence of (key, id)
\* what dict.get returns for a missing key
NoId == [type |-> None, uuid |-> 0]
IdMapKeys(id_map) == {id_map[i].key : i \in 1..Len(id_map)}
IdMapGet(id_map, key) ==
    IF key \in IdMapKeys(id_map)
    THEN id_map[CHOOSE i \in 1..Len(id_map) : id_map[i].key = key].id
    ELSE NoId
IdMapPut(id_map, key, id) ==
    IF key \in IdMapKeys(id_map)
    THEN [i \in 1..Len(id_map) |-> IF id_map[i].key = key THEN [key |-> key, id |-> id]
                                   ELSE id_map[i]]
    ELSE Append(id_map, [key |-> key, id |-> id])
IdMapValues(id_map) == [i \in 1..Len(id_map) |-> id_map[i].id]

\* lines 517-527: one record of it["objects"]
SdoRecord ==
    /\ pc = "item"
    /\ cur.obj_pos <= Len(cur.item.it.objects)
    /\ IsObject(cur.item.it.objects[cur.obj_pos])
    /\ \E obj \in {cur.item.it.objects[cur.obj_pos]} :
       \E st \in {safe_str(obj.stix_type)}, nm \in {safe_str(obj.name)} :
           IF st = <<>> \/ nm = <<>>
           THEN /\ cur' = [cur EXCEPT !.obj_pos = @ + 1]
                /\ UNCHANGED <<objects, registry, next_uuid>>
           ELSE \E r \in {get_or_create_sdo_id(Globals, st, nm, obj)} :
                /\ objects' = r.objects
                /\ registry' = r.registry
                /\ next_uuid' = r.next_uuid
                /\ cur' = [cur EXCEPT !.obj_pos = @ + 1,
                                      !.id_map = IdMapPut(@, <<st, nm>>, r.id)]
    /\ UNCHANGED <<input_pool, pc, manifest, n_items, bundle, raw_files, objs, enr, passes>>

\* lines 517-519: obj.get on a record that is no object raises AttributeError; no
\* handler encloses the loop, so the program ends there and writes neither the
\* bundle nor the manifest
SdoRecordRaises ==
    /\ pc = "item"
    /\ cur.obj_pos <= Len(cur.item.it.objects)
    /\ ~IsObject(cur.item.it.objects[cur.obj_pos])
    /\ pc' = "aborted"
    /\ UNCHANGED <<input_pool, objects, registry, manifest, next_uuid, cur, n_items, bundle,
                   raw_files, objs, enr, passes>>

\* lines 533-551: one record of it["indicators"]
IndRecord ==
    /\ pc = "item"
    /\ cur.obj_pos > Len(cur.item.it.objects)
    /\ cur.ind_pos <= Len(cur.item.it.indicators)
    /\ \E ind \in {cur.item.it.indicators[cur.ind_pos]} :
       \E itype \in {Lower(safe_str(ind.indicator_type))}, value \in {safe_str(ind.value)} :
           IF itype = <<>> \/ value = <<>>
           THEN /\ cur' = [cur EXCEPT !.ind_pos = @ + 1]
                /\ UNCHANGED <<objects, registry, next_uuid>>
           ELSE
           \E candidate \in {build_indicator(ind, now_utc_iso, now_utc_iso,
                                              creator_identity_id, next_uuid)} :
           IF candidate = NoObject
           THEN /\ cur' = [cur EXCEPT !.ind_pos = @ + 1,
                                      !.skipped_indicators =
                                          Append(@, [indicator_type |-> itype, value |-> value,
                                                     reason |-> <<"i", "n", "v", "a", "l", "i", "d", "_", "o", "r", "_", "n", "o", "t", "_", "a", "l", "l", "o", "w", "e", "d", "_", "f", "o", "r", "_", "i", "n", "d", "i", "c", "a", "t", "o", "r">>])]
                /\ UNCHANGED <<objects, registry, next_uuid>>
           ELSE \E r \in {get_or_create_indicator_id(Globals, itype, value, candidate)} :
                /\ objects' = r.objects
                /\ registry' = r.registry
                /\ next_uuid' = r.next_uuid
                /\ cur' = [cur EXCEPT !.ind_pos = @ + 1,
                                      !.indicator_ids = Append(@, r.id)]
    /\ UNCHANGED <<input_pool, pc, manifest, n_items, bundle, raw_files, objs, enr, passes>>

\* variant: an endpoint missing from id_map is looked up in the run-wide registry
ResolveEndpointGlobally(id_map, reg, stix_type, name) ==
    IF <<stix_type, name>> \in IdMapKeys(id_map) THEN IdMapGet(id_map, <<stix_type, name>>)
    ELSE IF <<stix_type, name>> \in DOMAIN reg.sdo_ids THEN reg.sdo_ids[<<stix_type, name>>]
    ELSE NoId

\* lines 566-567: id_map.get((type, name)); the run-wide registry reg is not consulted
ResolveEndpoint(id_map, reg, stix_type, name) == IdMapGet(id_map, <<stix_type, name>>)

\* lines 557-578: one record of it["relationships"]
RelRecord ==
    /\ pc = "item"
    /\ cur.obj_pos > Len(cur.item.it.objects)
    /\ cur.ind_pos > Len(cur.item.it.indicators)
    /\ cur.rel_pos <= Len(cur.item.it.relationships)
    /\ \E rel \in {cur.item.it.relationships[cur.rel_pos]} :
       \E s_name \in {safe_str(rel.source_name)},
          s_type \in {safe_str(rel.source_stix_type)},
          t_name \in {safe_str(rel.target_name)},
          t_type \in {safe_str(rel.target_stix_type)},
          r_type \in {safe_str(IF rel.relationship_type \in {None, <<>>} THEN <<"r", "e", "l", "a", "t", "e", "d", "-", "t", "o">>
                               ELSE rel.relationship_type)} :
       \E s_ref \in {ResolveEndpoint(cur.id_map, registry, s_type, s_name)},
          t_ref \in {ResolveEndpoint(cur.id_map, registry, t_type, t_name)} :
       \E rel_key \in {<<s_ref, r_type, t_ref>>},
          rel_obj \in {build_relationship(r_type, s_ref, t_ref, now_utc_iso, now_utc_iso,
                                          creator_identity_id, 0, next_uuid)} :
           IF \/ s_name = <<>> \/ s_type = <<>> \/ t_name = <<>> \/ t_type = <<>>
              \/ s_ref = NoId \/ t_ref = NoId
              \/ rel_key \in cur.seen_rel
           THEN /\ cur' = [cur EXCEPT !.rel_pos = @ + 1]
                /\ UNCHANGED <<objects, next_uuid>>
           ELSE /\ objects' = Append(objects, rel_obj)
                /\ next_uuid' = next_uuid + 1
                /\ cur' = [cur EXCEPT !.rel_pos = @ + 1,
                                      !.seen_rel = @ \cup {rel_key},
                                      !.relationship_ids = Append(@, rel_obj.id)]
    /\ UNCHANGED <<input_pool, pc, registry, manifest, n_items, bundle, raw_files, objs, enr,
                   passes>>

ItemRecordsDone ==
    /\ cur.obj_pos > Len(cur.item.it.objects)
    /\ cur.ind_pos > Len(cur.item.it.indicators)
    /\ cur.rel_pos > Len(cur.item.it.relationships)

\* variant: the ids of the indicators are left out
ObjectRefsWithoutIndicators(c) == IdMapValues(c.id_map) \o c.relationship_ids

\* lines 581-584
ObjectRefs(c) == IdMapValues(c.id_map) \o c.indicator_ids \o c.relationship_ids

\* lines 586-597: nothing was resolved for the item
AssembleSkip ==
    /\ pc = "item"
    /\ ItemRecordsDone
    /\ ObjectRefs(cur) = <<>>
    /\ manifest' = [manifest EXCEPT !.skipped =
                        Append(@, SkippedEntry(cur.row_num, cur.item.it,
                                               <<"s", "k", "i", "p", ":", " ", "n", "o", " ", "o", "b", "j", "e", "c", "t", "s", "/", "i", "n", "d", "i", "c", "a", "t", "o", "r", "s", "/", "r", "e", "l", "a", "t", "i", "o", "n", "s", "h", "i", "p", "s">>))]
    /\ pc' = "loop"
    /\ cur' = NoCur
    /\ UNCHANGED <<input_pool, objects, registry, next_uuid, n_items, bundle, raw_files,
                   objs, enr, passes>>

\* lines 599-641: the Report and its Note
AssembleReport ==
    /\ pc = "item"
    /\ ItemRecordsDone
    /\ ObjectRefs(cur) # <<>>
    /\ \E cleaned_item \in {cur.item.cleaned} :
       \E focus_summary \in {safe_str(cleaned_item.focus_summary)},
          clean_text    \in {safe_str(cleaned_item.clean_text)},
          clean_sha256  \in {safe_str(cleaned_item.clean_sha256)},
          report_id     \in {new_stix_id(<<"r", "e", "p", "o", "r", "t">>, next_uuid)} :
       \E author_note \in {
               build_note_for_author_and_raw(
                   now_utc_iso, now_utc_iso, creator_identity_id, report_id, cur.url,
                   cur.publisher_name, cur.authors,
                   safe_str(cleaned_item.raw_saved_path), safe_str(cleaned_item.raw_sha256),
                   cleaned_item.raw_char_len, cleaned_item.raw_truncated, next_uuid + 1)} :
       \E report \in {
               [type           |-> <<"r", "e", "p", "o", "r", "t">>,
                id             |-> report_id,
                created        |-> now_utc_iso,
                modified       |-> now_utc_iso,
                created_by_ref |-> cur.publisher_id,
                name           |-> Take(FirstNonEmpty(cur.title, focus_summary, <<>>,
                                                      <<"U", "n", "t", "i", "t", "l", "e", "d", " ", "R", "e", "p", "o", "r", "t">>), NAME_MAX_CHARS),
                description    |-> Take(focus_summary, DESC_MAX_CHARS),
                published      |-> now_utc_iso,
                external_references |-> IF cur.url # <<>> THEN <<cur.url>> ELSE <<>>,
                object_refs    |-> Append(ObjectRefs(cur), author_note.id),
                x_opencti_content      |-> clean_text,
                x_opencti_clean_sha256 |-> IF sha256_like(clean_sha256) THEN clean_sha256 ELSE <<>>]} :
           /\ objects' = objects \o <<report, author_note>>
           /\ next_uuid' = next_uuid + 2
           /\ cur' = [cur EXCEPT !.report_idx = Len(objects) + 1]
    /\ pc' = "authors"
    /\ UNCHANGED <<input_pool, registry, manifest, n_items, bundle, raw_files, objs, enr,
                   passes>>

\* lines 646-659: the author identity and its two edges, appended in this order
AuthorEdges(report_id, publisher_id, aid, n) ==
    LET rel_created_by ==
            build_relationship(<<"c", "r", "e", "a", "t", "e", "d", "-", "b", "y">>, report_id, aid, now_utc_iso, now_utc_iso,
                               creator_identity_id, CONF_CREATED_BY, n)
        rel_related ==
            build_relationship(<<"r", "e", "l", "a", "t", "e", "d", "-", "t", "o">>, aid, publisher_id, now_utc_iso, now_utc_iso,
                               creator_identity_id, CONF_RELATED_TO, n + 1)
    IN  <<rel_created_by, rel_related>>

\* lines 645-659: one author of the item
AuthorStep ==
    /\ pc = "authors"
    /\ cur.author_pos <= Len(cur.authors)
    /\ \E a \in {cur.authors[cur.author_pos]}, report \in {objects[cur.report_idx]} :
       \E r \in {get_or_create_author_id(Globals, cur.publisher_name, a)} :
       \E edges \in {AuthorEdges(report.id, cur.publisher_id, r.id, r.next_uuid)} :
       \E refs \in {report.object_refs \o <<edges[1].id, edges[2].id>>} :
           /\ objects' = [r.objects EXCEPT ![cur.report_idx].object_refs = refs] \o edges
           /\ registry' = r.registry
           /\ next_uuid' = r.next_uuid + 2
    /\ cur' = [cur EXCEPT !.author_pos = @ + 1]
    /\ UNCHANGED <<input_pool, pc, manifest, n_items, bundle, raw_files, objs, enr, passes>>

\* variant: the entry counts the object_refs the Report was created with
ManifestEntryEarlyCount ==
    /\ pc = "authors"
    /\ cur.author_pos > Len(cur.authors)
    /\ LET report == objects[cur.report_idx]
           cleaned_item == cur.item.cleaned
       IN  manifest' = [manifest EXCEPT !.reports = Append(@,
               [row_num            |-> cur.row_num,
                title              |-> cur.title,
                url                |-> cur.url,
                report_id          |-> report.id,
                publisher          |-> cur.publisher_name,
                authors            |-> cur.authors,
                object_refs_count  |-> Len(ObjectRefs(cur)) + 1,
                has_clean_text     |-> safe_str(cleaned_item.clean_text) # <<>>,
                has_raw_ref        |-> \/ safe_str(cleaned_item.raw_saved_path) # <<>>
                                       \/ safe_str(cleaned_item.raw_sha256) # <<>>,
                skipped_indicators |-> cur.skipped_indicators])]
    /\ pc' = "loop"
    /\ cur' = NoCur
    /\ UNCHANGED <<input_pool, objects, registry, next_uuid, n_items, bundle, raw_files,
                   objs, enr, passes>>

\* lines 661-674: the manifest entry of the Report
ManifestEntry ==
    /\ pc = "authors"
    /\ cur.author_pos > Len(cur.authors)
    /\ LET report == objects[cur.report_idx]
           cleaned_item == cur.item.cleaned
       IN  manifest' = [manifest EXCEPT !.reports = Append(@,
               [row_num            |-> cur.row_num,
                title              |-> cur.title,
                url                |-> cur.url,
                report_id          |-> report.id,
                publisher          |-> cur.publisher_name,
                authors            |-> cur.authors,
                object_refs_count  |-> Len(report.object_refs),
                has_clean_text     |-> safe_str(cleaned_item.clean_text) # <<>>,
                has_raw_ref        |-> \/ safe_str(cleaned_item.raw_saved_path) # <<>>
                                       \/ safe_str(cleaned_item.raw_sha256) # <<>>,
                skipped_indicators |-> cur.skipped_indicators])]
    /\ pc' = "loop"
    /\ cur' = NoCur
    /\ UNCHANGED <<input_pool, objects, registry, next_uuid, n_items, bundle, raw_files,
                   objs, enr, passes>>

\* a bundle that 05 has not written yet carries no summary
NoSummary == [stage |-> None]

\* lines 676-687: the input is exhausted; the bundle and the manifest are written.
\* The raw text files are those on disk from now on.
WriteBundle ==
    /\ pc = "loop"
    /\ bundle' = [exists |-> TRUE, objects |-> objects, x_enriched_at |-> 0,
                  x_enrichment |-> NoSummary]
    /\ raw_files' \in [DOMAIN raw_files -> RawTexts]
    /\ pc' = "built"
    /\ UNCHANGED <<input_pool, objects, registry, manifest, next_uuid, cur, n_items,
                   objs, enr, passes>>

\* ------------------------------------------------------------------------
\* 05_enrich_authors.py: main
\* ------------------------------------------------------------------------
IsType(o, t) == o.type = t
IsAuthorIdentity(o) ==
    IsType(o, <<"i", "d", "e", "n", "t", "i", "t", "y">>) /\ safe_str(o.identity_class) = <<"i", "n", "d", "i", "v", "i", "d", "u", "a", "l">>

\* variant: the last identity of the list
LastIdentityId(os) == os[SetMax({i \in 1..Len(os) : IsType(os[i], <<"i", "d", "e", "n", "t", "i", "t", "y">>)})].id

\* lines 219-229: the identity named CREATOR_NAME, else the first identity
CollectorId(os) ==
    LET named == {i \in 1..Len(os) : IsType(os[i], <<"i", "d", "e", "n", "t", "i", "t", "y">>) /\ safe_str(os[i].name) = CREATOR_NAME}
        any   == {i \in 1..Len(os) : IsType(os[i], <<"i", "d", "e", "n", "t", "i", "t", "y">>)}
    IN  IF named # {} THEN os[SetMin(named)].id
        ELSE IF any # {} THEN os[SetMin(any)].id
        ELSE NoId

\* lines 235-240: normalized name -> id; a later identity replaces an earlier one
ExistingAuthorIds(os) ==
    LET idx  == {i \in 1..Len(os) : IsAuthorIdentity(os[i]) /\ safe_str(os[i].name) # <<>>}
        keys == {normalize_author_key(safe_str(os[i].name)) : i \in idx}
    IN  [k \in keys |->
            os[SetMax({i \in idx : normalize_author_key(safe_str(os[i].name)) = k})].id]

\* lines 243-246
RelKeys(os) ==
    { <<os[i].source_ref, os[i].relationship_type, os[i].target_ref>> :
        i \in {j \in 1..Len(os) : IsType(os[j], <<"r", "e", "l", "a", "t", "i", "o", "n", "s", "h", "i", "p">>)} }

\* lines 254-267: the index in os of the note of the report, 0 for None
find_note_for_report(os, notes, report_id) ==
    LET refs == {k \in 1..Len(notes) :
                    \E j \in 1..Len(os[notes[k]].object_refs) :
                        os[notes[k]].object_refs[j] = report_id}
        pref == {k \in refs : StartsWith(Lower(safe_str(os[notes[k]].content)), <<"a", "u", "t", "h", "o", "r", ":">>)}
    IN  IF pref # {} THEN notes[SetMin(pref)]
        ELSE IF refs # {} THEN notes[SetMin(refs)]
        ELSE 0

\* lines 197-251: the bundle is loaded and indexed
EnrichStart ==
    /\ pc \in {"built", "enriched"}
    /\ passes < MaxPasses
    /\ passes' = passes + 1
    /\ objs' = bundle.objects
    /\ enr' = [created              |-> passes + 1,
               in_objects           |-> bundle.objects,
               in_enriched          |-> bundle.x_enrichment # NoSummary,
               reports              |-> SelectSeq(Indices(bundle.objects),
                                                  LAMBDA i : IsType(bundle.objects[i], <<"r", "e", "p", "o", "r", "t">>)),
               notes                |-> SelectSeq(Indices(bundle.objects),
                                                  LAMBDA i : IsType(bundle.objects[i], <<"n", "o", "t", "e">>)),
               collector_id         |-> CollectorId(bundle.objects),
               existing_author_ids  |-> ExistingAuthorIds(bundle.objects),
               rel_keys             |-> RelKeys(bundle.objects),
               changed_reports      |-> 0,
               added_identities     |-> 0,
               added_relationships  |-> 0,
               updated_notes        |-> 0,
               rep_pos              |-> 1,
               x_enrichment         |-> NoSummary]
    /\ pc' = "enrich"
    /\ UNCHANGED <<input_pool, objects, registry, manifest, next_uuid, cur, n_items, bundle,
                   raw_files>>

\* variant: the identity is appended and not counted
NewAuthorUncounted(st, key, author_identity) ==
    [id |-> author_identity.id,
     st |-> [st EXCEPT !.objs = Append(@, author_identity),
                       !.existing_author_ids = DictPut(@, key, author_identity.id),
                       !.next_uuid = @ + 1]]

\* lines 316-324: the identity of the author with this key; st holds objs,
\* existing_author_ids, rel_keys, obj_refs, the two counters and next_uuid
NewAuthor(st, key, author_identity) ==
    [id |-> author_identity.id,
     st |-> [st EXCEPT !.objs = Append(@, author_identity),
                       !.existing_author_ids = DictPut(@, key, author_identity.id),
                       !.added_identities = @ + 1,
                       !.next_uuid = @ + 1]]

ResolveAuthor(st, a, key, created, collector_id) ==
    IF key \in DOMAIN st.existing_author_ids
    THEN [id |-> st.existing_author_ids[key], st |-> st]
    ELSE NewAuthor(st, key,
                   make_author_identity(a, created, created, collector_id, st.next_uuid))

\* variant: the id of the edge is put at the head of object_refs
NewEdgePrepending(st, rk, r) ==
    IF rk \in st.rel_keys THEN st
    ELSE [st EXCEPT !.objs = Append(@, r),
                    !.rel_keys = @ \cup {rk},
                    !.added_relationships = @ + 1,
                    !.obj_refs = <<r.id>> \o @,
                    !.next_uuid = @ + 1]

\* lines 327-333 and 337-343: one edge r with the key rk, unless rk is in rel_keys
NewEdge(st, rk, r) ==
    IF rk \in st.rel_keys THEN st
    ELSE [st EXCEPT !.objs = Append(@, r),
                    !.rel_keys = @ \cup {rk},
                    !.added_relationships = @ + 1,
                    !.obj_refs = Append(@, r.id),
                    !.next_uuid = @ + 1]

AddEdge(st, relationship_type, source_ref, target_ref, created, collector_id, confidence) ==
    NewEdge(st, <<source_ref, relationship_type, target_ref>>,
            build_relationship(relationship_type, source_ref, target_ref, created, created,
                               collector_id, confidence, st.next_uuid))

\* lines 335-343: related-to, for a report that has a publisher
PublisherEdge(st, aid, publisher_id, created, collector_id) ==
    IF publisher_id # NoId
    THEN AddEdge(st, <<"r", "e", "l", "a", "t", "e", "d", "-", "t", "o">>, aid, publisher_id, created, collector_id, CONF_RELATED_TO)
    ELSE st

\* lines 326-343: the two edges of the author resolved as ra
EdgesOfAuthor(ra, rep_id, publisher_id, created, collector_id) ==
    PublisherEdge(AddEdge(ra.st, <<"c", "r", "e", "a", "t", "e", "d", "-", "b", "y">>, rep_id, ra.id, created, collector_id,
                          CONF_CREATED_BY),
                  ra.id, publisher_id, created, collector_id)

\* lines 312-343: one author with the key `key`; an empty key is passed over
EnrichAuthor(st, a, key, rep_id, publisher_id, created, collector_id) ==
    IF key = <<>> THEN st
    ELSE EdgesOfAuthor(ResolveAuthor(st, a, key, created, collector_id),
                       rep_id, publisher_id, created, collector_id)

\* lines 311-343: `for a in authors`, from the k-th author on
RECURSIVE EnrichAuthors(_, _, _, _, _, _, _)
EnrichAuthors(st, authors, k, rep_id, publisher_id, created, collector_id) ==
    IF k > Len(authors) THEN st
    ELSE EnrichAuthors(EnrichAuthor(st, authors[k], normalize_author_key(authors[k]),
                                    rep_id, publisher_id, created, collector_id),
                       authors, k + 1, rep_id, publisher_id, created, collector_id)

\* Path(raw_path).exists() and read_text: the text of the file, None without a file
ReadRawFile(raw_path) ==
    IF raw_path \in DOMAIN raw_files THEN raw_files[raw_path] ELSE None

\* lines 269-345: the body of `for rep in reports` for one report
EnrichReport ==
    /\ pc = "enrich"
    /\ enr.rep_pos <= Len(enr.reports)
    /\ \E rep_idx \in {enr.reports[enr.rep_pos]} :
       \E rep \in {objs[rep_idx]} :
       \E rep_id \in {rep.id}, publisher_id \in {rep.created_by_ref} :
       \E note_idx \in {find_note_for_report(objs, enr.notes, rep_id)} :
       \E content \in {IF note_idx = 0 THEN <<>> ELSE safe_str(objs[note_idx].content)} :
       \E raw_path \in {parse_raw_saved_path_from_note(content)} :
       \E raw_text \in {ReadRawFile(raw_path)} :
       raw_text # IsADirectory /\
       \E authors \in {IF raw_text = None THEN <<>>
                       ELSE extract_author_from_raw_text(raw_text)} :
           IF \/ note_idx = 0
              \/ raw_path = <<>>
              \/ raw_text = None
              \/ authors = <<>>
           THEN /\ enr' = [enr EXCEPT !.rep_pos = @ + 1]
                /\ UNCHANGED <<objs, next_uuid>>
           ELSE
           \E new_content \in {update_note_author_line(content, authors)} :
           \E noted \in {IF new_content # content
                         THEN [objs EXCEPT ![note_idx].content = new_content]
                         ELSE objs} :
           \E st \in {EnrichAuthors([objs                |-> noted,
                                     existing_author_ids |-> enr.existing_author_ids,
                                     rel_keys            |-> enr.rel_keys,
                                     obj_refs            |-> rep.object_refs,
                                     added_identities    |-> enr.added_identities,
                                     added_relationships |-> enr.added_relationships,
                                     next_uuid           |-> next_uuid],
                                    authors, 1, rep_id, publisher_id, enr.created,
                                    enr.collector_id)} :
                /\ objs' = [st.objs EXCEPT ![rep_idx].object_refs = st.obj_refs]
                /\ next_uuid' = st.next_uuid
                /\ enr' = [enr EXCEPT !.rep_pos = @ + 1,
                                      !.existing_author_ids = st.existing_author_ids,
                                      !.rel_keys = st.rel_keys,
                                      !.added_identities = st.added_identities,
                                      !.added_relationships = st.added_relationships,
                                      !.updated_notes = IF new_content # content THEN @ + 1 ELSE @,
                                      !.changed_reports = @ + 1]
    /\ UNCHANGED <<input_pool, pc, objects, registry, manifest, cur, n_items, bundle,
                   raw_files, passes>>

\* lines 288-292: the path of the Note exists and read_text raises (IsADirectoryError,
\* PermissionError); no handler encloses the loop, so the program ends there and
\* writes no bundle
EnrichReportRaises ==
    /\ pc = "enrich"
    /\ enr.rep_pos <= Len(enr.reports)
    /\ \E note_idx \in {find_note_for_report(objs, enr.notes, objs[enr.reports[enr.rep_pos]].id)} :
           /\ note_idx # 0
           /\ ReadRawFile(parse_raw_saved_path_from_note(safe_str(objs[note_idx].content)))
                  = IsADirectory
    /\ pc' = "aborted"
    /\ UNCHANGED <<input_pool, objects, registry, manifest, next_uuid, cur, n_items, bundle,
                   raw_files, objs, enr, passes>>

\* lines 347-366: the summary; the bundle is written unless --dry-run
EnrichFinish ==
    /\ pc = "enrich"
    /\ enr.rep_pos > Len(enr.reports)
    /\ LET x_enrichment ==
               [stage               |-> <<"0", "5", "_", "e", "n", "r", "i", "c", "h", "_", "a", "u", "t", "h", "o", "r", "s">>,
                changed_reports     |-> enr.changed_reports,
                added_identities    |-> enr.added_identities,
                added_relationships |-> enr.added_relationships,
                updated_notes       |-> enr.updated_notes]
       IN  /\ enr' = [enr EXCEPT !.x_enrichment = x_enrichment]
           /\ \E dry_run \in BOOLEAN :
                bundle' = IF dry_run THEN bundle
                          ELSE [exists        |-> TRUE,
                                objects       |-> objs,
                                x_enriched_at |-> IF bundle.x_enriched_at = 0 THEN enr.created
                                                  ELSE bundle.x_enriched_at,
                                x_enrichment  |-> x_enrichment]
    /\ pc' = "enriched"
    /\ UNCHANGED <<input_pool, objects, registry, manifest, next_uuid, cur, n_items,
                   raw_files, objs, passes>>

Next ==
    \/ ItemNotOk
    \/ ItemBegin
    \/ SdoRecord
    \/ SdoRecordRaises
    \/ IndRecord
    \/ RelRecord
    \/ AssembleSkip
    \/ AssembleReport
    \/ AuthorStep
    \/ ManifestEntry
    \/ WriteBundle
    \/ EnrichStart
    \/ EnrichReport
    \/ EnrichReportRaises
    \/ EnrichFinish

Spec == Init /\ [][Next]_vars

\* ------------------------------------------------------------------------
\* Properties
\* ------------------------------------------------------------------------
ObjIds(os) == {os[i].id : i \in 1..Len(os)}
ObjById(os, id) == os[CHOOSE i \in 1..Len(os) : os[i].id = id]
IsReport(o) == o.type = <<"r", "e", "p", "o", "r", "t">>
IsRelationship(o) == o.type = <<"r", "e", "l", "a", "t", "i", "o", "n", "s", "h", "i", "p">>
RelTriple(o) == <<o.source_ref, o.relationship_type, o.target_ref>>
\* the lists of objects a run leaves behind: 04's list, the bundle file, 05's list
ObjectLists ==
    {objects} \cup (IF bundle.exists THEN {bundle.objects} ELSE {}) \cup {objs}

\* C1: a pass of 05 over a bundle that a previous pass of 05 wrote, with the raw
\* text files unchanged, appends no Identity and no Relationship, changes no
\* Note content, leaves the number of objects as it was and reports
\* added_identities = 0.
C1_EnrichmentIdempotent ==
    (pc = "enriched" /\ enr.in_enriched) =>
        /\ Len(objs) = Len(enr.in_objects)
        /\ enr.added_identities = 0
        /\ enr.added_relationships = 0
        /\ \A i \in 1..Len(enr.in_objects) :
               enr.in_objects[i].type = <<"n", "o", "t", "e">> =>
                   objs[i].content = enr.in_objects[i].content

\* the edges from a Report to its Author, and from an Author to a Publisher
CreatedByEdges(os) ==
    {i \in 1..Len(os) : /\ IsRelationship(os[i])
                        /\ os[i].relationship_type = <<"c", "r", "e", "a", "t", "e", "d", "-", "b", "y">>
                        /\ os[i].source_ref.type = <<"r", "e", "p", "o", "r", "t">>}
AuthorPublisherEdges(os) ==
    {i \in 1..Len(os) : /\ IsRelationship(os[i])
                        /\ os[i].relationship_type = <<"r", "e", "l", "a", "t", "e", "d", "-", "t", "o">>
                        /\ os[i].source_ref \in ObjIds(os)
                        /\ IsAuthorIdentity(ObjById(os, os[i].source_ref))}
AuthorScoped(os) ==
    /\ \A i, j \in CreatedByEdges(os) :
           os[i].target_ref = os[j].target_ref =>
               ObjById(os, os[i].source_ref).created_by_ref =
                   ObjById(os, os[j].source_ref).created_by_ref
    /\ \A i, j \in AuthorPublisherEdges(os) :
           os[i].source_ref = os[j].source_ref => os[i].target_ref = os[j].target_ref

\* C2: after the build and after any number of passes of 05, two Reports of
\* different Publishers have no created-by edge to the same Author identity, and
\* no Author identity has related-to edges to two different Publishers.
C2_AuthorScopedByPublisher ==
    /\ pc \in {"built", "enrich", "enriched"} => AuthorScoped(objects)
    /\ bundle.exists => AuthorScoped(bundle.objects)
    /\ pc = "enriched" => AuthorScoped(objs)

NoDangling(os) ==
    \A i \in 1..Len(os) :
        IsReport(os[i]) =>
            \A k \in 1..Len(os[i].object_refs) : os[i].object_refs[k] \in ObjIds(os)

\* C3: every id in the object_refs of every Report is the id of an object of the
\* same list, in 04's list, in the bundle file and in 05's list.
C3_NoDanglingRefs == \A os \in ObjectLists : NoDangling(os)

\* C3 witness: a pass of 05 that appended edges to the object_refs of a Report
\* the build had filled has ended and its bundle is written.
C3_Witness ==
    /\ pc = "enriched"
    /\ enr.added_relationships > 0
    /\ bundle.x_enrichment # NoSummary
    /\ \E i \in 1..Len(bundle.objects) :
           IsReport(bundle.objects[i]) /\ Len(bundle.objects[i].object_refs) >= 4

RefsDistinct(os) ==
    \A i \in 1..Len(os) :
        IsReport(os[i]) =>
            \A a, b \in 1..Len(os[i].object_refs) :
                os[i].object_refs[a] = os[i].object_refs[b] => a = b

\* C4: no id occurs twice in the object_refs of a Report, after the build and
\* after every pass of 05.
C4_ObjectRefsDeduplicated == \A os \in ObjectLists : RefsDistinct(os)

EndpointsPrecede(os) ==
    \A i \in 1..Len(os) :
        IsRelationship(os[i]) =>
            /\ \E j \in 1..(i - 1) : os[j].id = os[i].source_ref
            /\ \E j \in 1..(i - 1) : os[j].id = os[i].target_ref

RelationshipsDistinct(os) ==
    \A i, j \in 1..Len(os) :
        (IsRelationship(os[i]) /\ IsRelationship(os[j]) /\ RelTriple(os[i]) = RelTriple(os[j]))
            => i = j

\* C6: after a build over any sequence of articles, no two Relationship objects
\* of the bundle have the same (source_ref, relationship_type, target_ref).
C6_RelationshipsDeduplicated ==
    /\ pc = "built" => RelationshipsDistinct(objects)
    /\ (bundle.exists /\ bundle.x_enrichment = NoSummary) => RelationshipsDistinct(bundle.objects)

\* the objects that stix_object_from_extracted builds
IsSdoObject(o) ==
    /\ o.type \notin {<<"i", "n", "d", "i", "c", "a", "t", "o", "r">>, <<"r", "e", "l", "a", "t", "i", "o", "n", "s", "h", "i", "p">>, <<"r", "e", "p", "o", "r", "t">>, <<"n", "o", "t", "e">>}
    /\ "created_by_ref" \in DOMAIN o
    /\ o.type = <<"i", "d", "e", "n", "t", "i", "t", "y">> => o.identity_class = <<"o", "r", "g", "a", "n", "i", "z", "a", "t", "i", "o", "n">>
\* the key of the SDO record the loop is at
SdoKeyAt(k) ==
    << safe_str(cur.item.it.objects[k].stix_type), safe_str(cur.item.it.objects[k].name) >>
AtSdoRecord ==
    /\ pc = "item"
    /\ cur.obj_pos <= Len(cur.item.it.objects)
    /\ IsObject(cur.item.it.objects[cur.obj_pos])
C7_OneObjectPerKey ==
    /\ Cardinality({i \in 1..Len(objects) : IsSdoObject(objects[i])})
           = Cardinality(DOMAIN registry.sdo_ids)
    /\ \A key \in DOMAIN registry.sdo_ids :
           Cardinality({i \in 1..Len(objects) : objects[i].id = registry.sdo_ids[key]}) = 1
C7_SecondResolution ==
    (AtSdoRecord /\ SdoKeyAt(cur.obj_pos) \in DOMAIN registry.sdo_ids) =>
        /\ objects' = objects
        /\ registry' = registry
        /\ IdMapGet(cur'.id_map, SdoKeyAt(cur.obj_pos)) = registry.sdo_ids[SdoKeyAt(cur.obj_pos)]

\* C7: an SDO record whose (stix_type, name) is registered resolves to the id
\* assigned at the first record of that key, in the same article or a later
\* one; the objects list is left as it is, so it holds one object for the key
\* and that object keeps the description and confidence of the first record.
C7_GlobalSdoDedup == []C7_OneObjectPerKey /\ [][C7_SecondResolution]_vars

\* C7 witness: the record just resolved has a registered key and a description
\* other than that of the object kept for the key.
C7_Witness ==
    /\ pc = "item"
    /\ cur.obj_pos > 1
    /\ SdoKeyAt(cur.obj_pos - 1) \in DOMAIN registry.sdo_ids
    /\ ObjById(objects, registry.sdo_ids[SdoKeyAt(cur.obj_pos - 1)]).description
           # Take(safe_str(cur.item.it.objects[cur.obj_pos - 1].description), DESC_MAX_CHARS)
    /\ IdMapGet(cur.id_map, SdoKeyAt(cur.obj_pos - 1)) = registry.sdo_ids[SdoKeyAt(cur.obj_pos - 1)]

\* the entries of manifest["reports"], and the authors of each
ReportEntries == {manifest.reports[i] : i \in 1..Len(manifest.reports)}
AuthorsOf(m) == {<<m, k>> : k \in 1..Len(m.authors)}
ResolvedAuthors == UNION {AuthorsOf(m) : m \in ReportEntries}
\* the Author identity the k-th author of the Report of entry m was resolved to:
\* the target of its created-by edge, the last 2 * len(authors) ids of object_refs
\* being those of the author edges
AuthorIdOf(mk) ==
    LET refs == ObjById(objects, mk[1].report_id).object_refs
    IN  ObjById(objects, refs[Len(refs) - 2 * Len(mk[1].authors) + 2 * mk[2] - 1]).target_ref
SameAuthorKey(a, b) ==
    /\ a[1].publisher = b[1].publisher
    /\ normalize_author_key(a[1].authors[a[2]]) = normalize_author_key(b[1].authors[b[2]])

\* C8: in the build, two author names of one publisher that normalize to the
\* same key resolve to one Author identity id, and the objects list holds one
\* Author identity per (publisher, key).
C8_AuthorDedup ==
    pc # "authors" =>
        /\ \A a, b \in ResolvedAuthors : SameAuthorKey(a, b) => AuthorIdOf(a) = AuthorIdOf(b)
        /\ Cardinality({i \in 1..Len(objects) : IsAuthorIdentity(objects[i])})
               = Cardinality({ <<a[1].publisher, normalize_author_key(a[1].authors[a[2]])>> :
                                 a \in ResolvedAuthors })

\* C8 witness: two names that differ and normalize to the same key were
\* resolved under one publisher.
C8_Witness ==
    /\ pc # "authors"
    /\ \E a, b \in ResolvedAuthors :
           /\ SameAuthorKey(a, b)
           /\ a[1].authors[a[2]] # b[1].authors[b[2]]

\* the relationship record the loop is at, and its endpoint keys
AtRelRecord ==
    /\ pc = "item"
    /\ cur.obj_pos > Len(cur.item.it.objects)
    /\ cur.ind_pos > Len(cur.item.it.indicators)
    /\ cur.rel_pos <= Len(cur.item.it.relationships)
SourceKeyAt(k) ==
    << safe_str(cur.item.it.relationships[k].source_stix_type),
       safe_str(cur.item.it.relationships[k].source_name) >>
TargetKeyAt(k) ==
    << safe_str(cur.item.it.relationships[k].target_stix_type),
       safe_str(cur.item.it.relationships[k].target_name) >>
UnresolvedAt(k) ==
    \/ SourceKeyAt(k) \notin IdMapKeys(cur.id_map)
    \/ TargetKeyAt(k) \notin IdMapKeys(cur.id_map)
C9_Step ==
    (AtRelRecord /\ UnresolvedAt(cur.rel_pos)) =>
        /\ objects' = objects
        /\ registry' = registry
        /\ cur'.relationship_ids = cur.relationship_ids

\* C9: a relationship record with an endpoint (type, name) that is not among the
\* SDOs resolved for its own article appends no object, neither a Relationship
\* nor an endpoint, also when an earlier article registered that (type, name).
C9_UnresolvedDropped == [][C9_Step]_vars

\* C9 witness: the record just passed has an endpoint that an earlier article
\* registered and this article did not resolve.
C9_Witness ==
    /\ pc = "item"
    /\ cur.obj_pos > Len(cur.item.it.objects)
    /\ cur.ind_pos > Len(cur.item.it.indicators)
    /\ cur.rel_pos > 1
    /\ UnresolvedAt(cur.rel_pos - 1)
    /\ \/ (SourceKeyAt(cur.rel_pos - 1) \in DOMAIN registry.sdo_ids
              /\ SourceKeyAt(cur.rel_pos - 1) \notin IdMapKeys(cur.id_map))
       \/ (TargetKeyAt(cur.rel_pos - 1) \in DOMAIN registry.sdo_ids
              /\ TargetKeyAt(cur.rel_pos - 1) \notin IdMapKeys(cur.id_map))

\* the syntax check of each kind of indicator
ValidIndicator(itype, value) ==
    \/ itype = <<"i", "p">> /\ is_ip(value)
    \/ itype = <<"d", "o", "m", "a", "i", "n">> /\ is_domain(value)
    \/ itype = <<"h", "a", "s", "h">> /\ Len(value) \in {32, 40, 64}
                       /\ \A i \in 1..Len(value) : LowerCh(value[i]) \in HexLower
\* the indicator record the loop is at
AtIndRecord ==
    /\ pc = "item"
    /\ cur.obj_pos > Len(cur.item.it.objects)
    /\ cur.ind_pos <= Len(cur.item.it.indicators)
IndTypeAt(k) == Lower(safe_str(cur.item.it.indicators[k].indicator_type))
IndValueAt(k) == safe_str(cur.item.it.indicators[k].value)
C10_BuiltFromValid ==
    \A i \in 1..Len(objects) :
        objects[i].type = <<"i", "n", "d", "i", "c", "a", "t", "o", "r">> =>
            \E key \in DOMAIN registry.ind_ids :
                /\ registry.ind_ids[key] = objects[i].id
                /\ ValidIndicator(key[1], key[2])
C10_Step ==
    (AtIndRecord /\ ~ValidIndicator(IndTypeAt(cur.ind_pos), IndValueAt(cur.ind_pos))) =>
        /\ objects' = objects
        /\ cur'.indicator_ids = cur.indicator_ids

Elems(s) == {s[i] : i \in 1..Len(s)}
\* an article is being processed
InArticle(c) == c # NoCur
\* the ids collected for the article so far: the three collections that become
\* object_refs, and the Report's object_refs once the Report exists
RefsOfArticle(c, os) ==
    IF c.report_idx = 0 THEN Elems(ObjectRefs(c)) ELSE Elems(os[c.report_idx].object_refs)
\* the indexes of the objects a step appends
Appended == (Len(objects) + 1)..Len(objects')
C11_Step ==
    /\ InArticle(cur') =>
           \A i \in Appended :
               IsReport(objects'[i]) \/ objects'[i].id \in RefsOfArticle(cur', objects')
    /\ (InArticle(cur) /\ InArticle(cur')) =>
           RefsOfArticle(cur, objects) \subseteq RefsOfArticle(cur', objects')

\* C11: every object appended to the objects list while an article is processed,
\* other than the Report itself, has its id among the ids collected for the
\* article's Report, and no id leaves that collection before the manifest entry
\* is written; so the final object_refs holds the id of every such object.
C11_NoOrphanedCreation == [][C11_Step]_vars

\* the step the loop is about to take raises an exception
AtRaisingRecord ==
    /\ pc = "item"
    /\ cur.obj_pos <= Len(cur.item.it.objects)
    /\ ~IsObject(cur.item.it.objects[cur.obj_pos])
C12_Step ==
    AtRaisingRecord =>
        /\ pc' = "loop"
        /\ Len(manifest'.skipped) = Len(manifest.skipped) + 1
        /\ manifest'.skipped[Len(manifest'.skipped)].row_num = cur.row_num
        /\ StartsWith(manifest'.skipped[Len(manifest'.skipped)].reason, <<"e", "x", "c", "e", "p", "t", "i", "o", "n", ":">>)

\* C12: when the processing of an article raises an unexpected error, the build
\* appends an entry for the article to manifest.skipped with a reason that starts
\* with "exception:" and goes on with the next article.
C12_ErrorContained == [][C12_Step]_vars

\* the article ends with this step and an entry is appended to the manifest
ArticleRecorded == InArticle(cur) /\ ~InArticle(cur') /\ manifest' # manifest
\* the entry the step appends
NewEntry ==
    IF Len(manifest'.reports) > Len(manifest.reports)
    THEN manifest'.reports[Len(manifest'.reports)]
    ELSE manifest'.skipped[Len(manifest'.skipped)]
\* the records of it["indicators"] with a type and a value that build_indicator rejects
RejectedIndicators(it) ==
    {k \in 1..Len(it.indicators) :
        /\ Lower(safe_str(it.indicators[k].indicator_type)) # <<>>
        /\ safe_str(it.indicators[k].value) # <<>>
        /\ build_indicator(it.indicators[k], 0, 0, creator_identity_id, 0) = NoObject}
RecordedIn(entry, ind) ==
    /\ "skipped_indicators" \in DOMAIN entry
    /\ \E j \in 1..Len(entry.skipped_indicators) :
           /\ entry.skipped_indicators[j].indicator_type = Lower(safe_str(ind.indicator_type))
           /\ entry.skipped_indicators[j].value = safe_str(ind.value)
           /\ entry.skipped_indicators[j].reason # <<>>
C13_Step ==
    ArticleRecorded =>
        \A k \in RejectedIndicators(cur.item.it) :
            RecordedIn(NewEntry, cur.item.it.indicators[k])

\* C13: when an article whose statuses are both ok ends, as a report entry or as
\* a skipped entry, the manifest entry written for it lists every indicator
\* record that build_indicator rejected, with its type, value and reason.
C13_RejectedIndicatorsRecorded == [][C13_Step]_vars

BuildCompleted == pc \in {"built", "enrich", "enriched"}
\* the row numbers of the entries of a list of the manifest
RowNums(entries) == {entries[i].row_num : i \in 1..Len(entries)}
ReportIdsOf(os) == {os[i].id : i \in {j \in 1..Len(os) : IsReport(os[j])}}
OneEntryPerItem ==
    /\ Len(manifest.reports) + Len(manifest.skipped) = n_items
    /\ RowNums(manifest.reports) \cup RowNums(manifest.skipped) = 1..n_items
    /\ RowNums(manifest.reports) \cap RowNums(manifest.skipped) = {}
EntriesMatchReports ==
    /\ {manifest.reports[i].report_id : i \in 1..Len(manifest.reports)} = ReportIdsOf(objects)
    /\ Cardinality(ReportIdsOf(objects)) = Len(manifest.reports)
    /\ Cardinality({i \in 1..Len(objects) : IsReport(objects[i])}) = Len(manifest.reports)
    /\ \A i \in 1..Len(manifest.reports) :
           manifest.reports[i].object_refs_count
               = Len(ObjById(objects, manifest.reports[i].report_id).object_refs)

ReportAppended == \E i \in Appended : IsReport(objects'[i])
\* the item being processed has both statuses "ok" and all its records are done
\* with at least one SDO, Indicator or Relationship id resolved
ReportDue ==
    /\ pc = "item"
    /\ ItemRecordsDone
    /\ safe_str(cur.item.it.retrieval_status) = <<"o", "k">>
    /\ safe_str(cur.item.it.extraction_status) = <<"o", "k">>
    /\ (cur.id_map # <<>> \/ cur.indicator_ids # <<>> \/ cur.relationship_ids # <<>>)
C15_Step == ReportAppended <=> ReportDue
\* the first id of object_refs is that of an SDO, an Indicator or an extracted
\* Relationship: not the Note, and not an author edge, whose source is the Report
ReportsHaveContent(os) ==
    \A i \in 1..Len(os) :
        IsReport(os[i]) =>
            /\ Len(os[i].object_refs) >= 2
            /\ os[i].object_refs[1] \in ObjIds(os)
            /\ ObjById(os, os[i].object_refs[1]).type \notin {<<"n", "o", "t", "e">>, <<"r", "e", "p", "o", "r", "t">>}
            /\ IsRelationship(ObjById(os, os[i].object_refs[1])) =>
                   ObjById(os, os[i].object_refs[1]).source_ref # os[i].id
C15_ReportsNotEmpty == \A os \in ObjectLists : ReportsHaveContent(os)

IsNote(o) == o.type = <<"n", "o", "t", "e">>
\* the Notes of a list that name the Report in their object_refs
NotesOfReport(os, report_id) ==
    {i \in 1..Len(os) : IsNote(os[i]) /\ report_id \in Elems(os[i].object_refs)}
OneNotePerReport(os) ==
    /\ \A i \in 1..Len(os) :
           IsReport(os[i]) =>
               /\ Cardinality(NotesOfReport(os, os[i].id)) = 1
               /\ \A n \in NotesOfReport(os, os[i].id) :
                      /\ os[n].object_refs = <<os[i].id>>
                      /\ os[n].id \in Elems(os[i].object_refs)
    /\ \A n \in 1..Len(os) :
           IsNote(os[n]) =>
               /\ Len(os[n].object_refs) = 1
               /\ os[n].object_refs[1] \in ReportIdsOf(os)

PublisherIds == {registry.publisher_ids[name] : name \in DOMAIN registry.publisher_ids}
\* the Report of every manifest entry is owned by the Publisher identity that
\* get_or_create_publisher_id resolved for the entry's publisher name
ReportsOwnedByPublisher ==
    \A i \in 1..Len(manifest.reports) :
        LET m == manifest.reports[i]
            owner == ObjById(objects, m.report_id).created_by_ref
        IN  /\ m.publisher \in DOMAIN registry.publisher_ids
            /\ owner = registry.publisher_ids[m.publisher]
            /\ ObjById(objects, owner).name = Take(m.publisher, NAME_MAX_CHARS)
            /\ ObjById(objects, owner).identity_class = <<"o", "r", "g", "a", "n", "i", "z", "a", "t", "i", "o", "n">>
OwnershipRoles(os) ==
    \A i \in 1..Len(os) :
        /\ IsReport(os[i]) =>
               os[i].created_by_ref \in PublisherIds \ {creator_identity_id}
        /\ (IsRelationship(os[i]) \/ IsNote(os[i])) =>
               os[i].created_by_ref = creator_identity_id

IsPrefix(s, t) == Len(s) <= Len(t) /\ SubSeq(t, 1, Len(s)) = s
\* the object `after` is the object `before` but for the content of a Note and
\* for ids appended to the object_refs of a Report
SameButAmended(before, after) ==
    IF IsNote(before) THEN [after EXCEPT !.content = before.content] = before
    ELSE IF IsReport(before)
    THEN /\ [after EXCEPT !.object_refs = before.object_refs] = before
         /\ IsPrefix(before.object_refs, after.object_refs)
    ELSE after = before
AppendOnly(before, after) ==
    /\ Len(before) <= Len(after)
    /\ \A i \in 1..Len(before) : SameButAmended(before[i], after[i])

\* C18: during and after a pass of 05 the objects of the bundle it loaded are the
\* first objects of its list, in the same order; each is unchanged but for the
\* content of a Note and for ids appended at the end of a Report's object_refs.
C18_EnrichmentAppendOnly ==
    /\ pc \in {"enrich", "enriched"} => AppendOnly(enr.in_objects, objs)
    /\ pc = "enriched" => bundle.objects \in {enr.in_objects, objs}

\* C18 witness: a pass of 05 that appended objects, amended a Note and extended
\* the object_refs of a Report, and wrote the bundle.
C18_Witness ==
    /\ pc = "enriched"
    /\ bundle.objects = objs
    /\ Len(objs) > Len(enr.in_objects)
    /\ \E i \in 1..Len(enr.in_objects) :
           IsNote(objs[i]) /\ objs[i].content # enr.in_objects[i].content
    /\ \E i \in 1..Len(enr.in_objects) :
           IsReport(objs[i]) /\ Len(objs[i].object_refs) > Len(enr.in_objects[i].object_refs)

\* the objects of a list with the type t
OfType(os, t) == {i \in 1..Len(os) : os[i].type = t}
\* what the example scenario leaves in the objects list os and in its entry
ExampleOutcome(os, entry) ==
    /\ Cardinality(OfType(os, <<"m", "a", "l", "w", "a", "r", "e">>)) = 1
    /\ Cardinality(OfType(os, <<"i", "n", "d", "i", "c", "a", "t", "o", "r">>)) = 1
    /\ Cardinality(OfType(os, <<"r", "e", "l", "a", "t", "i", "o", "n", "s", "h", "i", "p">>)) = 0
    /\ Cardinality(OfType(os, <<"r", "e", "p", "o", "r", "t">>)) = 1
    /\ Cardinality(OfType(os, <<"n", "o", "t", "e">>)) = 1
    /\ \A i \in OfType(os, <<"m", "a", "l", "w", "a", "r", "e">>) : os[i].name = <<"L", "o", "c", "k", "b", "i", "t">>
    /\ \A i \in OfType(os, <<"i", "n", "d", "i", "c", "a", "t", "o", "r">>) :
           os[i].pattern = <<"[", "i", "p", "v", "4", "-", "a", "d", "d", "r", ":", "v", "a", "l", "u", "e", " ", "=", " ", "'", "2", "0", "3", ".", "0", ".", "1", "1", "3", ".", "5", "'", "]">>
    /\ \A r \in OfType(os, <<"r", "e", "p", "o", "r", "t">>), m \in OfType(os, <<"m", "a", "l", "w", "a", "r", "e">>),
          i \in OfType(os, <<"i", "n", "d", "i", "c", "a", "t", "o", "r">>), n \in OfType(os, <<"n", "o", "t", "e">>) :
           /\ os[r].object_refs = <<os[m].id, os[i].id, os[n].id>>
           /\ entry.report_id = os[r].id
    /\ entry.skipped_indicators =
           << [indicator_type |-> <<"o", "t", "h", "e", "r">>, value |-> <<"b", "o", "g", "u", "s">>,
               reason |-> <<"i", "n", "v", "a", "l", "i", "d", "_", "o", "r", "_", "n", "o", "t", "_", "a", "l", "l", "o", "w", "e", "d", "_", "f", "o", "r", "_", "i", "n", "d", "i", "c", "a", "t", "o", "r">>] >>
C19_Step ==
    (InArticle(cur) /\ ~InArticle(cur') /\ cur.row_num = 1 /\ cur.item = WorkedExample) =>
        /\ Len(manifest'.reports) = 1
        /\ manifest'.skipped = <<>>
        /\ ExampleOutcome(objects', manifest'.reports[1])

\* C19: a build whose one article is the example scenario (malware SDO Lockbit,
\* indicators ip 203.0.113.5 and other/bogus, relationship Lockbit targets Y Corp
\* without a Y Corp SDO, no author) ends the article with one malware SDO, one ip
\* Indicator, no Relationship, one Report whose object_refs is the malware id,
\* the indicator id and the Note id, and a reports entry whose
\* skipped_indicators is the one record for other/bogus.
C19_WorkedExample == [][C19_Step]_vars

\* C19 witness: the example scenario was the first article and its entry is
\* written.
C19_Witness ==
    /\ pc = "loop"
    /\ n_items = 1
    /\ Len(manifest.reports) = 1
    /\ manifest.reports[1].publisher = UNKNOWN_PUBLISHER
    /\ manifest.reports[1].object_refs_count = 3
    /\ Len(manifest.reports[1].skipped_indicators) = 1
    /\ Len(objects) = 6
    /\ \E i \in 1..Len(objects) : objects[i].type = <<"i", "n", "d", "i", "c", "a", "t", "o", "r">>
    /\ \E i \in 1..Len(objects) : objects[i].type = <<"m", "a", "l", "w", "a", "r", "e">> /\ objects[i].description = <<>>

\* the pass is at a Report; the index of its Note, 0 without one
AtReport == pc = "enrich" /\ enr.rep_pos <= Len(enr.reports)
NoteIdxAt == find_note_for_report(objs, enr.notes, objs[enr.reports[enr.rep_pos]].id)
\* the path the Note of the Report records, empty without a Note or a path
RawPathAt ==
    IF NoteIdxAt = 0 THEN <<>>
    ELSE parse_raw_saved_path_from_note(safe_str(objs[NoteIdxAt].content))
\* no path is recorded, or nothing is at the path, or what is there is no
\* readable file
NoReadableRaw == RawPathAt = <<>> \/ ReadRawFile(RawPathAt) \in {None, IsADirectory}
C20_Step ==
    (AtReport /\ NoReadableRaw) =>
        /\ pc' = "enrich"
        /\ objs' = objs
        /\ enr'.rep_pos = enr.rep_pos + 1

\* C20: a pass of 05 at a Report whose Note records no raw_saved_path, or a path
\* where nothing is, or a path that exists and cannot be read as a file, leaves
\* its list of objects as it is and goes on to the next Report.
C20_UnreadableRawSkipped == [][C20_Step]_vars

\* the text read for the Report the pass is at; None and IsADirectory are no text
RawTextAt == ReadRawFile(RawPathAt)
\* none of the first HEAD_MAX_LINES lines of the first HEAD_MAX_CHARS characters
\* is a byline line
NoBylineLine(raw_text) ==
    \A line \in Elems(Take(splitlines(Take(raw_text, HEAD_MAX_CHARS)), HEAD_MAX_LINES)) :
        BylineOfLine(line) = None
C21_Step ==
    (AtReport /\ RawPathAt # <<>> /\ RawTextAt \notin {None, IsADirectory}
              /\ NoBylineLine(RawTextAt)) =>
        /\ objs' = objs
        /\ enr'.rep_pos = enr.rep_pos + 1

\* C21: a pass of 05 at a Report whose raw text has no byline line among its
\* first 30 lines within the first 5000 characters finds no authors and leaves
\* its list of objects as it is, whatever the rest of the text holds.
C21_BylineOnlyInHeadLines == [][C21_Step]_vars

\* the build takes up an article with this step
ArticleBegun == pc = "loop" /\ pc' = "item"
\* the author value of an item: the first truthy one of the three sources
AuthorValueOf(item) == FirstTruthy(item.inc.author, item.cleaned.author, item.it.author)
\* a text split on ',', ';', '|', '&' and the word "and"
SplitOnDelimiters(s) ==
    Split(ReplaceCh(ReplaceCh(ReplaceCh(SubAnd(s), "&", ","), ";", ","), "|", ","), ",")
\* the list the author value stands for: nothing for an absent or empty value,
\* the trimmed non-empty elements of a list, the trimmed non-empty parts of a
\* text; each once, in the order of first appearance
AuthorsMeant(av) ==
    IF av.kind = "none" THEN <<>>
    ELSE IF av.kind = "list" THEN FirstOccurrences(NonEmpty(StripAll(av.v)))
    ELSE FirstOccurrences(NonEmpty(StripAll(SplitOnDelimiters(Strip(av.v)))))
C22_Step == ArticleBegun => cur'.authors = AuthorsMeant(AuthorValueOf(cur'.item))

\* C22: the authors the build parses from an article's author value are: none
\* for an absent or empty value; the trimmed non-empty elements of a list,
\* unsplit; the trimmed non-empty parts of a text split on ',', ';', '|', '&'
\* and the word "and"; each once, in the order of first appearance.
C22_ParseAuthors == [][C22_Step]_vars

\* the lines in which byline extraction looks for a byline
HeadLines(raw_text) == Take(splitlines(Take(raw_text, HEAD_MAX_CHARS)), HEAD_MAX_LINES)
\* the names of a byline: its parts between ',', ';', '|', '&' and " and ",
\* trimmed, without a leading "by ", the empty ones left out, each once
BylineMeant(byline) ==
    FirstOccurrences(NonEmpty(UnByAll(NonEmpty(StripAll(SplitOnDelimiters(Strip(byline)))))))
\* the index of the first byline line of the head, 0 without one
FirstBylineIdx(lines) ==
    IF \A i \in 1..Len(lines) : BylineOfLine(lines[i]) = None THEN 0
    ELSE CHOOSE i \in 1..Len(lines) :
             /\ BylineOfLine(lines[i]) # None
             /\ \A j \in 1..(i - 1) : BylineOfLine(lines[j]) = None
\* the pass is at a Report whose raw text is read and has a byline line
AtByline ==
    /\ AtReport
    /\ RawPathAt # <<>>
    /\ RawTextAt \notin {None, IsADirectory}
    /\ FirstBylineIdx(HeadLines(RawTextAt)) # 0
BylineAt == BylineOfLine(HeadLines(RawTextAt)[FirstBylineIdx(HeadLines(RawTextAt))])
C23_Step ==
    (AtByline /\ BylineMeant(BylineAt) # <<>>) =>
        splitlines(objs'[NoteIdxAt].content)[1] = AuthorLine(BylineMeant(BylineAt))

\* C23: the authors a pass of 05 takes from a byline, which it writes into the
\* first line of the Note, are the parts of the byline between ',', ';', '|',
\* '&' and " and ", trimmed and without a leading "by ", each non-empty part
\* once in the order of first appearance; no part is discarded.
C23_SplitByline == [][C23_Step]_vars

\* the first non-empty trimmed source of an item: included row, cleaned text,
\* extraction item; the sentinel without one
PublisherMeant(item) ==
    IF safe_str(item.inc.source) # <<>> THEN safe_str(item.inc.source)
    ELSE IF safe_str(item.cleaned.source) # <<>> THEN safe_str(item.cleaned.source)
    ELSE IF safe_str(item.it.source) # <<>> THEN safe_str(item.it.source)
    ELSE <<"U", "n", "k", "n", "o", "w", "n", " ", "P", "u", "b", "l", "i", "s", "h", "e", "r">>
C24_Step == ArticleBegun => cur'.publisher_name = PublisherMeant(cur'.item)
\* the Publisher identity of the Report of a manifest entry
PublisherIdOf(m) == ObjById(objects, m.report_id).created_by_ref
C24_SameIdIffSameName ==
    \A i, j \in 1..Len(manifest.reports) :
        (manifest.reports[i].publisher = manifest.reports[j].publisher)
            <=> (PublisherIdOf(manifest.reports[i]) = PublisherIdOf(manifest.reports[j]))

\* C24: the publisher name of an article is the first non-empty trimmed source
\* among the included row, the cleaned text and the extraction item, else
\* "Unknown Publisher"; two articles of a run have the same Publisher identity
\* exactly if these names are the same text, letter case included.
C24_PublisherResolution == []C24_SameIdIffSameName /\ [][C24_Step]_vars

\* C24 witness: two Reports of a run whose publisher names differ in letter case
\* only have different Publisher identities.
C24_Witness ==
    /\ Len(manifest.reports) = 2
    /\ manifest.reports[1].publisher # manifest.reports[2].publisher
    /\ Lower(manifest.reports[1].publisher) = Lower(manifest.reports[2].publisher)
    /\ PublisherIdOf(manifest.reports[1]) # PublisherIdOf(manifest.reports[2])

\* the Reports of the loaded bundle that the pass changed: an id was appended to
\* object_refs, or the content of a Note that names the Report was rewritten
ChangedReports ==
    {i \in 1..Len(enr.in_objects) :
        /\ IsReport(enr.in_objects[i])
        /\ \/ objs[i].object_refs # enr.in_objects[i].object_refs
           \/ \E n \in NotesOfReport(enr.in_objects, enr.in_objects[i].id) :
                  objs[n].content # enr.in_objects[n].content}

\* C25: at the end of a pass of 05, changed_reports is the number of Reports the
\* pass changed; it is 0 for a pass that added no identity and no relationship
\* and updated no Note.
C25_ChangedReportsCount ==
    pc = "enriched" => enr.x_enrichment.changed_reports = Cardinality(ChangedReports)

\* the indexes of the objects the pass appended to the bundle it loaded
AppendedByPass == (Len(enr.in_objects) + 1)..Len(objs)
RewrittenNotes ==
    {i \in 1..Len(enr.in_objects) :
        IsNote(enr.in_objects[i]) /\ objs[i].content # enr.in_objects[i].content}
CountsMatch(c) ==
    /\ c.added_identities + c.added_relationships = Len(objs) - Len(enr.in_objects)
    /\ c.added_identities = Cardinality({i \in AppendedByPass : objs[i].type = <<"i", "d", "e", "n", "t", "i", "t", "y">>})
    /\ c.added_relationships = Cardinality({i \in AppendedByPass : IsRelationship(objs[i])})
    /\ c.updated_notes = Cardinality(RewrittenNotes)

\* C26: during a pass of 05 and in the summary at its end, added_identities plus
\* added_relationships is the number of objects appended to the loaded bundle,
\* added_identities is the number of appended identities, and updated_notes is
\* the number of Notes whose content differs from the loaded one.
C26_SummaryCounts ==
    /\ pc \in {"enrich", "enriched"} => CountsMatch(enr)
    /\ pc = "enriched" => CountsMatch(enr.x_enrichment)

\* C26 witness: a pass ended that appended an identity and two edges and
\* rewrote a Note.
C26_Witness ==
    /\ pc = "enriched"
    /\ enr.x_enrichment.added_identities >= 1
    /\ enr.x_enrichment.added_relationships >= 2
    /\ enr.x_enrichment.updated_notes >= 1

\* the ids a registry maps to
Values(d) == {d[k] : k \in DOMAIN d}
Injective(d) == \A k1, k2 \in DOMAIN d : d[k1] = d[k2] => k1 = k2
\* every value of the registry d is the id of one object of the list
ValuesPresent(d) ==
    \A v \in Values(d) : Cardinality({i \in 1..Len(objects) : objects[i].id = v}) = 1
RegisteredIds ==
    Values(registry.sdo_ids) \cup Values(registry.ind_ids)
        \cup Values(registry.publisher_ids) \cup Values(registry.author_ids)
RegistriesDisjoint ==
    Cardinality(RegisteredIds)
        = Cardinality(DOMAIN registry.sdo_ids) + Cardinality(DOMAIN registry.ind_ids)
            + Cardinality(DOMAIN registry.publisher_ids)
            + Cardinality(DOMAIN registry.author_ids)
\* the objects the registries are about: all but the Creator identity, the
\* Reports, the Notes and the Relationships
IsRegistryObject(o) ==
    /\ o.id # creator_identity_id
    /\ o.type \notin {<<"r", "e", "p", "o", "r", "t">>, <<"n", "o", "t", "e">>, <<"r", "e", "l", "a", "t", "i", "o", "n", "s", "h", "i", "p">>}
\* each registry holds ids of objects of its own kind
KindsMatch ==
    /\ \A v \in Values(registry.sdo_ids) : IsSdoObject(ObjById(objects, v))
    /\ \A v \in Values(registry.ind_ids) : ObjById(objects, v).type = <<"i", "n", "d", "i", "c", "a", "t", "o", "r">>
    /\ \A v \in Values(registry.publisher_ids) :
           /\ ObjById(objects, v).type = <<"i", "d", "e", "n", "t", "i", "t", "y">>
           /\ "created_by_ref" \notin DOMAIN ObjById(objects, v)
    /\ \A v \in Values(registry.author_ids) : IsAuthorIdentity(ObjById(objects, v))

\* C27: in every state of the build each of the four registries is injective,
\* its values are ids of objects of the list, no id is a value of two
\* registries, and every SDO, Indicator, Publisher and Author object of the list
\* is the value of one registry key.
C27_RegistryConsistency ==
    /\ Injective(registry.sdo_ids) /\ Injective(registry.ind_ids)
    /\ Injective(registry.publisher_ids) /\ Injective(registry.author_ids)
    /\ ValuesPresent(registry.sdo_ids) /\ ValuesPresent(registry.ind_ids)
    /\ ValuesPresent(registry.publisher_ids) /\ ValuesPresent(registry.author_ids)
    /\ RegistriesDisjoint
    /\ KindsMatch
    /\ \A i \in 1..Len(objects) : IsRegistryObject(objects[i]) => objects[i].id \in RegisteredIds

\* C27 witness: a build has filled all four registries, the publisher and the
\* author registry with two keys each.
C27_Witness ==
    /\ registry.sdo_ids # EmptyDict
    /\ registry.ind_ids # EmptyDict
    /\ Cardinality(DOMAIN registry.publisher_ids) >= 2
    /\ Cardinality(DOMAIN registry.author_ids) >= 2

\* the step skips an article at the status gate
SkippedNotOk == pc = "loop" /\ pc' = "loop" /\ n_items' = n_items + 1
\* an article without records: nothing can be collected for its Report, so the
\* article ends in the skip "no objects/indicators/relationships"
NoRecords(it) == it.objects = <<>> /\ it.indicators = <<>> /\ it.relationships = <<>>
\* the step ends an article with the skip "no objects/indicators/relationships"
SkippedEmpty ==
    /\ pc = "item" /\ pc' = "loop"
    /\ Len(manifest'.skipped) = Len(manifest.skipped) + 1
    /\ StartsWith(manifest'.skipped[Len(manifest'.skipped)].reason, <<"s", "k", "i", "p", ":", " ", "n", "o", " ", "o", "b", "j", "e", "c", "t", "s">>)
BundleUntouched == objects' = objects /\ registry' = registry
C28_Step ==
    /\ SkippedNotOk => BundleUntouched
    /\ (ArticleBegun /\ NoRecords(cur'.item.it)) => BundleUntouched
    /\ SkippedEmpty => BundleUntouched

\* C28: an article the build skips, because its status is not ok or because it
\* has no objects, indicators or relationships, leaves the objects list and the
\* four registries as they were before the article: no step of such an article
\* changes them.
C28_SkipLeavesBundle == [][C28_Step]_vars

\* the Indicator objects of a list
IndicatorsOf(os) == {i \in 1..Len(os) : os[i].type = <<"i", "n", "d", "i", "c", "a", "t", "o", "r">>}
\* C29: after a build no two Indicator objects of the bundle have the same
\* pattern; indicators that denote the same observable, hash values that differ
\* in letter case among them, are one Indicator object.
C29_OneIndicatorPerPattern ==
    BuildCompleted =>
        \A i, j \in IndicatorsOf(bundle.objects) :
            bundle.objects[i].pattern = bundle.objects[j].pattern => i = j

\* the first line of a Note's content
AuthorLineOf(note) == splitlines(note.content)[1]
\* the names the line gives after "author: "
NamesOnLine(line) == Elems(Split(Drop(line, Len(<<"a", "u", "t", "h", "o", "r", ":", " ">>)), ";"))
\* the line names the identity: one of its names and the identity's name agree
\* up to letter case, white space and the cut of the name at NAME_MAX_CHARS
NamedOn(line, identity) ==
    \E n \in NamesOnLine(line) :
        StartsWith(normalize_author_key(n), normalize_author_key(identity.name))
\* the targets of the created-by edges from a Report
CreatedByTargets(os, report_id) ==
    {os[i].target_ref : i \in {j \in 1..Len(os) :
        /\ IsRelationship(os[j])
        /\ os[j].relationship_type = <<"c", "r", "e", "a", "t", "e", "d", "-", "b", "y">>
        /\ os[j].source_ref = report_id}}
AttributionConsistent(os) ==
    \A r \in 1..Len(os) :
        IsReport(os[r]) =>
            \A n \in NotesOfReport(os, os[r].id) :
                /\ \A t \in CreatedByTargets(os, os[r].id) :
                       IsAuthorIdentity(ObjById(os, t)) => NamedOn(AuthorLineOf(os[n]), ObjById(os, t))
                /\ AuthorLineOf(os[n]) = <<"a", "u", "t", "h", "o", "r", ":", " ", "U", "n", "k", "n", "o", "w", "n">> =>
                       CreatedByTargets(os, os[r].id) = {}

\* C30: in the bundle the build writes and in the bundle every pass of 05
\* writes, every Author identity a Report has a created-by edge to is named in
\* the author line of the Report's Note, and that line is "author: Unknown" only
\* when the Report has no created-by edge.
C30_AttributionConsistent == bundle.exists => AttributionConsistent(bundle.objects)

====
